---------------------------- MODULE Spec2Model ----------------------------
(***************************************************************************)
(* PocketLedger (src/exp3/pocket_ledger): the JSON document store          *)
(* (database/database.py), its query engine, the entity records (models/)  *)
(* and the application layer (app_logic.py, services/auth_service.py).     *)
(*                                                                         *)
(* Conventions                                                             *)
(*   - an Optional value is a sequence: <<>> is None, <<x>> is x;          *)
(*   - a Python dict is a sequence of records in insertion order, each     *)
(*     record carrying its own key (dicts keep insertion order, and        *)
(*     overwriting a key keeps its position);                              *)
(*   - a text is a sequence of one-character strings;                      *)
(*   - a Decimal is [c, e], the number c * 10^e, compared by value;        *)
(*   - a datetime is [t, aware]: the instant and whether it has a tzinfo.  *)
(*     Comparing an aware with a naive datetime by < or > raises           *)
(*     TypeError in Python; == between them is False.                      *)
(*   - uuid.UUID values are small integers; str(uuid) / uuid.UUID(str) is   *)
(*     a bijection and the stored key is written as the same integer.      *)
(* Entry.images, created_at and updated_at are not modelled.               *)
(***************************************************************************)
EXTENDS Integers, Sequences, FiniteSets, TLC

VARIABLES data, disk, current_user, last

vars == <<data, disk, current_user, last>>

---------------------------------------------------------------------------
(* Bounds of the model *)

MaxEntries == 3
MaxTagged == 2
MaxTime == 2
MaxUsers == 2
MaxTags == 2
MaxOwned == 2
MaxAppEntries == 1
MaxAppTags == 1
MaxAppBudgets == 1

---------------------------------------------------------------------------
(* Optional values *)

None == <<>>
Some(x) == <<x>>
IsSome(o) == o # <<>>
Val(o) == o[1]

---------------------------------------------------------------------------
(* Text: str.lower, str.strip, the `in` substring test *)

LowerChar(c) ==
  CASE c = "A" -> "a"
    [] c = "B" -> "b"
    [] OTHER -> c

Lower(s) == [i \in 1..Len(s) |-> LowerChar(s[i])]

RECURSIVE LStrip(_)
LStrip(s) == IF s # <<>> /\ Head(s) = " " THEN LStrip(Tail(s)) ELSE s

RECURSIVE RStrip(_)
RStrip(s) ==
  IF s # <<>> /\ s[Len(s)] = " " THEN RStrip(SubSeq(s, 1, Len(s) - 1)) ELSE s

Strip(s) == RStrip(LStrip(s))

\* Python `k in s` on strings: k occurs as a contiguous substring of s
Contains(s, k) ==
  \E i \in 1..(Len(s) - Len(k) + 1) : SubSeq(s, i, i + Len(k) - 1) = k

---------------------------------------------------------------------------
(* Decimal: exact comparison by value *)

RECURSIVE Pow10(_)
Pow10(n) == IF n <= 0 THEN 1 ELSE 10 * Pow10(n - 1)

\* the model's Decimals have exponents 0 and -1: scale to tenths
DecScaled(d) == d.c * Pow10(d.e + 1)

DecLess(a, b) == DecScaled(a) < DecScaled(b)
DecGreater(a, b) == DecScaled(a) > DecScaled(b)
DecPositive(a) == DecScaled(a) > 0

Dec(c, e) == [c |-> c, e |-> e]

\* str(Decimal) and Decimal(str): the digits and the exponent are kept
DecToStr(d) == [kind |-> "dec", c |-> d.c, e |-> d.e]
DecFromStr(s) == [c |-> s.c, e |-> s.e]

---------------------------------------------------------------------------
(* datetime *)

Dt(t, aware) == [t |-> t, aware |-> aware]

DtAware(d) == d.aware
\* datetime.isoformat / datetime.fromisoformat
DtIsoformat(d) == [kind |-> "iso", t |-> d.t, aware |-> d.aware]
DtFromIso(s) == [t |-> s.t, aware |-> s.aware]

---------------------------------------------------------------------------
(* dict operations on a sequence of records keyed by field accessor Key *)

Range(s) == {s[i] : i \in 1..Len(s)}

IndexOf(d, Key, k) ==
  IF \E i \in 1..Len(d) : d[i][Key] = k
  THEN CHOOSE i \in 1..Len(d) : d[i][Key] = k
  ELSE 0

DictHas(d, Key, k) == IndexOf(d, Key, k) # 0

DictGet(d, Key, k) ==
  IF DictHas(d, Key, k) THEN Some(d[IndexOf(d, Key, k)]) ELSE None

\* d[k] = v : overwrite in place, or append
DictPut(d, Key, v) ==
  IF DictHas(d, Key, v[Key])
  THEN [d EXCEPT ![IndexOf(d, Key, v[Key])] = v]
  ELSE Append(d, v)

\* del d[k]
DictDel(d, Key, k) == SelectSeq(d, LAMBDA r : r[Key] # k)

---------------------------------------------------------------------------
(* models/category.py, models/tag.py *)

CategoryNew(name, type, id) == [category_id |-> id, name |-> name, type |-> type]

Category_to_dict(c) ==
  [category_id |-> c.category_id, name |-> c.name, type |-> c.type]

\* CategoryType(data['type']) raises ValueError on any other tag
Category_from_dict_ok(cd) == cd.type \in {"income", "expense"}
Category_from_dict(cd) == CategoryNew(cd.name, cd.type, cd.category_id)

DefaultColor == "#808080"

\* @require(lambda name: len(name.strip()) > 0)
TagRequire(name) == Len(Strip(name)) > 0

TagNew(name, color, id) ==
  [tag_id |-> id, name |-> name,
   color |-> IF IsSome(color) /\ Val(color) # "" THEN Val(color) ELSE DefaultColor]

Tag_to_dict(t) == [tag_id |-> t.tag_id, name |-> t.name, color |-> t.color]

Tag_from_dict_ok(td) == TagRequire(td.name)
Tag_from_dict(td) == TagNew(td.name, Some(td.color), td.tag_id)

---------------------------------------------------------------------------
(* models/entry.py *)

\* the three @require contracts of Entry.__init__
EntryRequire(title, amount, currency) ==
  /\ Len(Strip(title)) > 0
  /\ DecPositive(amount)
  /\ Len(currency) > 0

\* Entry.__init__: note defaults to "", tags start empty
EntryNew(id, user_id, category, title, amount, currency, note, timestamp) ==
  [entry_id |-> id, user_id |-> user_id, category |-> category, title |-> title,
   amount |-> amount, currency |-> currency,
   note |-> IF IsSome(note) THEN Val(note) ELSE <<>>,
   timestamp |-> timestamp, tags |-> <<>>]

\* Entry.add_tag: refuses a tag already present (Tag.__eq__ compares tag_id)
EntryHasTag(e, tag) == \E i \in 1..Len(e.tags) : e.tags[i].tag_id = tag.tag_id
Entry_add_tag(e, tag) ==
  IF EntryHasTag(e, tag) THEN e ELSE [e EXCEPT !.tags = Append(@, tag)]

Entry_to_dict(e) ==
  [entry_id |-> e.entry_id,
   user_id |-> e.user_id,
   category |-> Category_to_dict(e.category),
   title |-> e.title,
   amount |-> DecToStr(e.amount),
   currency |-> e.currency,
   note |-> e.note,
   timestamp |-> DtIsoformat(e.timestamp),
   tags |-> [i \in 1..Len(e.tags) |-> Tag_to_dict(e.tags[i])]]

\* Entry.from_dict raises when a parse or a constructor contract fails
Entry_from_dict_ok(ed) ==
  /\ Category_from_dict_ok(ed.category)
  /\ ed.amount.kind = "dec"
  /\ ed.timestamp.kind = "iso"
  /\ EntryRequire(ed.title, DecFromStr(ed.amount), ed.currency)
  /\ \A i \in 1..Len(ed.tags) : Tag_from_dict_ok(ed.tags[i])

\* the exception Entry.from_dict raises, "" when none: the arguments are
\* evaluated first (CategoryType(...) raises ValueError), then the contracts
Entry_from_dict_exc(ed) ==
  IF ~Category_from_dict_ok(ed.category) THEN "ValueError"
  ELSE IF ~Entry_from_dict_ok(ed) THEN "ViolationError"
  ELSE ""

Entry_from_dict(ed) ==
  [EntryNew(ed.entry_id, ed.user_id, Category_from_dict(ed.category), ed.title,
            DecFromStr(ed.amount), ed.currency, Some(ed.note),
            DtFromIso(ed.timestamp))
     EXCEPT !.tags = [i \in 1..Len(ed.tags) |-> Tag_from_dict(ed.tags[i])]]

--------------------------------------------------------------------------------------------------------------------------------------------
(* models/user.py *)

\* hashlib.sha256(password).hexdigest(): a digest, never the plaintext
Sha256(password) == <<"sha256", password>>

\* @require(lambda password: len(password) > 0) on _hash_password
HashRequire(password) == Len(password) > 0

HasAt(email) == \E i \in 1..Len(email) : email[i] = "@"

\* the four @require contracts of User.__init__
UserRequire(email, phone, password, nickname) ==
  /\ HasAt(email) /\ Len(email) > 3
  /\ Len(phone) >= 8
  /\ Len(password) >= 6
  /\ Len(Strip(nickname)) > 0

UserNew(id, email, phone, password, nickname) ==
  [user_id |-> id, email |-> email, phone |-> phone,
   password_hash |-> Sha256(password), nickname |-> nickname]

\* User.verify_password; raises through _hash_password on an empty password
User_verify_password(u, password) == u.password_hash = Sha256(password)

User_to_dict(u) ==
  [user_id |-> u.user_id, email |-> u.email, phone |-> u.phone,
   password_hash |-> u.password_hash, nickname |-> u.nickname]

\* User.from_dict bypasses __init__ (cls.__new__) and copies the fields
User_from_dict(ud) ==
  [user_id |-> ud.user_id, email |-> ud.email, phone |-> ud.phone,
   password_hash |-> ud.password_hash, nickname |-> ud.nickname]

---------------------------------------------------------------------------
(* models/budget.py *)

\* Budget._validate_threshold raises ValueError outside 0..100
ThresholdOk(threshold) == 0 <= threshold /\ threshold <= 100

\* Budget.__init__ : the limit is converted, not validated
BudgetNew(id, user_id, period, limit_amount, threshold_percent, category_id) ==
  [budget_id |-> id, user_id |-> user_id, category_id |-> category_id,
   period |-> period, limit_amount |-> limit_amount,
   threshold_percent |-> threshold_percent, is_active |-> TRUE]

Budget_to_dict(b) ==
  [budget_id |-> b.budget_id, user_id |-> b.user_id, category_id |-> b.category_id,
   period |-> b.period, limit_amount |-> DecToStr(b.limit_amount),
   threshold_percent |-> b.threshold_percent, is_active |-> b.is_active]

Budget_from_dict_ok(bd) ==
  /\ bd.period \in {"daily", "weekly", "monthly", "yearly"}
  /\ bd.limit_amount.kind = "dec"
  /\ ThresholdOk(bd.threshold_percent)

Budget_from_dict(bd) ==
  [budget_id |-> bd.budget_id, user_id |-> bd.user_id, category_id |-> bd.category_id,
   period |-> bd.period, limit_amount |-> DecFromStr(bd.limit_amount),
   threshold_percent |-> bd.threshold_percent, is_active |-> bd.is_active]


----------------------------------------------------------------------------
(* decimal : the arithmetic of Budget, in the default context (prec = 28,  *)
(* ROUND_HALF_EVEN). A coefficient is a sequence of digits, most           *)
(* significant first, so that 29-digit amounts can be written.             *)

\* decimal.getcontext().prec
Prec == 28

RECURSIVE DigitsOfNat(_)
DigitsOfNat(n) == IF n < 10 THEN <<n>> ELSE Append(DigitsOfNat(n \div 10), n % 10)

RECURSIVE Zeros(_)
Zeros(n) == IF n <= 0 THEN <<>> ELSE <<0>> \o Zeros(n - 1)

RECURSIVE StripZeros(_)
StripZeros(ds) == IF Len(ds) > 1 /\ ds[1] = 0 THEN StripZeros(Tail(ds)) ELSE ds

Big(neg, ds, e) == [neg |-> neg, ds |-> ds, e |-> e]

\* a Decimal of the store ([c, e]) or one written digit by digit
BigOf(x) ==
  IF "ds" \in DOMAIN x THEN x
  ELSE Big(x.c < 0, DigitsOfNat(IF x.c < 0 THEN 0 - x.c ELSE x.c), x.e)

BigIsZero(x) == StripZeros(x.ds) = <<0>>

\* the exact product of a coefficient and a small natural number
RECURSIVE MulCarry(_, _, _)
MulCarry(ds, k, carry) ==
  IF ds = <<>> THEN (IF carry = 0 THEN <<>> ELSE DigitsOfNat(carry))
  ELSE LET v == ds[Len(ds)] * k + carry
       IN Append(MulCarry(SubSeq(ds, 1, Len(ds) - 1), k, v \div 10), v % 10)
MulDigits(ds, k) == StripZeros(<<0>> \o MulCarry(ds, k, 0))

RECURSIVE AddOne(_)
AddOne(ds) ==
  IF ds = <<>> THEN <<1>>
  ELSE IF ds[Len(ds)] < 9 THEN [ds EXCEPT ![Len(ds)] = @ + 1]
  ELSE Append(AddOne(SubSeq(ds, 1, Len(ds) - 1)), 0)

\* the context's rounding of a result to Prec significant digits
RoundHalfEven(x) ==
  IF Len(x.ds) <= Prec THEN x
  ELSE LET kept == SubSeq(x.ds, 1, Prec)
           rest == SubSeq(x.ds, Prec + 1, Len(x.ds))
           tail == SubSeq(rest, 2, Len(rest))
           up   == \/ rest[1] > 5
                   \/ rest[1] = 5 /\ \E i \in 1..Len(tail) : tail[i] # 0
                   \/ rest[1] = 5 /\ (\A i \in 1..Len(tail) : tail[i] = 0)
                                  /\ kept[Prec] % 2 = 1
           r    == IF up THEN AddOne(kept) ELSE kept
       IN IF Len(r) > Prec
          THEN Big(x.neg, SubSeq(r, 1, Prec), x.e + Len(rest) + 1)
          ELSE Big(x.neg, r, x.e + Len(rest))

\* Decimal * Decimal(k) for an integer 0 <= k: the product, then rounded
BigMulInt(x, k) == RoundHalfEven(Big(x.neg, MulDigits(x.ds, k), x.e))

\* Decimal / Decimal(100) of a value of at most Prec digits: exact
BigDiv100(x) == Big(x.neg, x.ds, x.e - 2)

\* comparisons are exact whatever the context: -1, 0 or 1
Aligned(x, e) == StripZeros(x.ds \o Zeros(x.e - e))
RECURSIVE LexCmp(_, _)
LexCmp(a, b) ==
  IF a = <<>> THEN 0
  ELSE IF a[1] < b[1] THEN -1
  ELSE IF a[1] > b[1] THEN 1
  ELSE LexCmp(Tail(a), Tail(b))
MagCmp(x, y) ==
  LET e == IF x.e < y.e THEN x.e ELSE y.e
      a == Aligned(x, e)
      b == Aligned(y, e)
  IN IF Len(a) < Len(b) THEN -1
     ELSE IF Len(a) > Len(b) THEN 1
     ELSE LexCmp(a, b)
BigCmp(x, y) ==
  IF BigIsZero(x) /\ BigIsZero(y) THEN 0
  ELSE IF BigIsZero(x) THEN (IF y.neg THEN 1 ELSE -1)
  ELSE IF BigIsZero(y) THEN (IF x.neg THEN -1 ELSE 1)
  ELSE IF x.neg /\ ~y.neg THEN -1
  ELSE IF ~x.neg /\ y.neg THEN 1
  ELSE IF x.neg THEN MagCmp(y, x)
  ELSE MagCmp(x, y)

\* Budget.is_exceeded: Decimal(str(current_amount)) > self.limit_amount
is_exceeded(b, current_amount) ==
  BigCmp(BigOf(current_amount), BigOf(b.limit_amount)) > 0

\* Budget.is_threshold_reached: the threshold amount is computed in the context
threshold_amount(b) ==
  BigDiv100(BigMulInt(BigOf(b.limit_amount), b.threshold_percent))
is_threshold_reached(b, current_amount) ==
  BigCmp(BigOf(current_amount), threshold_amount(b)) >= 0

\* update_limit converts and assigns; update_threshold validates first
update_limit(b, new_limit) == [b EXCEPT !.limit_amount = new_limit]
update_threshold(b, new_threshold) == [b EXCEPT !.threshold_percent = new_threshold]
activate(b) == [b EXCEPT !.is_active = TRUE]
deactivate(b) == [b EXCEPT !.is_active = FALSE]

----------
(* database/database.py : query_entries *)

QueryParams(user_id, category_id, tag_ids, start_date, end_date, min_amount, max_amount, keyword) ==
  [user_id |-> user_id, category_id |-> category_id, tag_ids |-> tag_ids,
   start_date |-> start_date, end_date |-> end_date,
   min_amount |-> min_amount, max_amount |-> max_amount, keyword |-> keyword]

\* lines 257-258: start_date > end_date, a comparison that itself raises
\* TypeError when exactly one of the two carries a tzinfo
ValidateDates(p) ==
  IF IsSome(p.start_date) /\ IsSome(p.end_date)
  THEN IF DtAware(Val(p.start_date)) # DtAware(Val(p.end_date)) THEN "TypeError"
       ELSE IF Val(p.start_date).t > Val(p.end_date).t THEN "ValueError"
       ELSE "ok"
  ELSE "ok"

\* lines 280-283
ValidateAmounts(p) ==
  IF IsSome(p.min_amount) /\ IsSome(p.max_amount)
     /\ DecGreater(Val(p.min_amount), Val(p.max_amount))
  THEN "ValueError"
  ELSE "ok"

\* the pre-validation as a whole, in the order of the code
Validate(p) ==
  IF ValidateDates(p) # "ok" THEN ValidateDates(p) ELSE ValidateAmounts(p)

\* lines 286-291: keyword.strip(), "" counts as None
NormKeyword(k) ==
  IF IsSome(k) /\ Strip(Val(k)) # <<>> THEN Some(Strip(Val(k))) ELSE None

UserFilter(ed, p) == IsSome(p.user_id) => ed.user_id = Val(p.user_id)

CategoryFilter(ed, p) ==
  IsSome(p.category_id) => ed.category.category_id = Val(p.category_id)

\* mutant: AND semantics, every requested tag must be on the entry
TagFilterAll(ed, p) ==
  (IsSome(p.tag_ids) /\ Len(Val(p.tag_ids)) > 0)
    => \A i \in 1..Len(Val(p.tag_ids)) :
         \E j \in 1..Len(ed.tags) : ed.tags[j].tag_id = Val(p.tag_ids)[i]

\* `if tag_ids:` is false for None and for the empty list
TagFilter(ed, p) ==
  (IsSome(p.tag_ids) /\ Len(Val(p.tag_ids)) > 0)
    => \E i \in 1..Len(Val(p.tag_ids)) :
         \E j \in 1..Len(ed.tags) : ed.tags[j].tag_id = Val(p.tag_ids)[i]

\* lines 314-322: a missing or unparsable timestamp skips the record
TimestampParses(ed) == ed.timestamp.kind = "iso"

StartFilter(ed, p) ==
  IsSome(p.start_date) =>
    /\ DtAware(Val(p.start_date)) = DtAware(DtFromIso(ed.timestamp))
    /\ ~(DtFromIso(ed.timestamp).t < Val(p.start_date).t)

\* mutant: an exclusive upper bound (entry_time >= end_date skips)
EndFilterExclusive(ed, p) ==
  IsSome(p.end_date) =>
    /\ DtAware(Val(p.end_date)) = DtAware(DtFromIso(ed.timestamp))
    /\ DtFromIso(ed.timestamp).t < Val(p.end_date).t

EndFilter(ed, p) ==
  IsSome(p.end_date) =>
    /\ DtAware(Val(p.end_date)) = DtAware(DtFromIso(ed.timestamp))
    /\ ~(DtFromIso(ed.timestamp).t > Val(p.end_date).t)

DateFilter(ed, p) == TimestampParses(ed) /\ StartFilter(ed, p) /\ EndFilter(ed, p)

\* lines 338-349
AmountParses(ed) == ed.amount.kind = "dec"

\* mutant: an exclusive lower bound (entry_amount <= min_amount skips)
MinFilterExclusive(ed, p) ==
  IsSome(p.min_amount) => DecGreater(DecFromStr(ed.amount), Val(p.min_amount))

MinFilter(ed, p) ==
  IsSome(p.min_amount) => ~DecLess(DecFromStr(ed.amount), Val(p.min_amount))

MaxFilter(ed, p) ==
  IsSome(p.max_amount) => ~DecGreater(DecFromStr(ed.amount), Val(p.max_amount))

AmountFilter(ed, p) == AmountParses(ed) /\ MinFilter(ed, p) /\ MaxFilter(ed, p)

\* lines 352-357, kw the normalised keyword
KeywordFilter(ed, kw) ==
  IsSome(kw) =>
    \/ Contains(Lower(ed.title), Lower(Val(kw)))
    \/ Contains(Lower(ed.note), Lower(Val(kw)))

\* one pass of the loop body: TRUE when the record reaches results.append
Passes(ed, p) ==
  /\ UserFilter(ed, p)
  /\ CategoryFilter(ed, p)
  /\ TagFilter(ed, p)
  /\ DateFilter(ed, p)
  /\ AmountFilter(ed, p)
  /\ KeywordFilter(ed, NormKeyword(p.keyword))

\* results.sort(key=timestamp, reverse=True): stable, descending.
\* x goes after every element whose key is >= its own.
RECURSIVE InsertDesc(_, _)

\* mutant: x goes before the elements with an equal key (an unstable sort)
RECURSIVE InsertDescUnstable(_, _)
InsertDescUnstable(sorted, x) ==
  IF sorted = <<>> THEN <<x>>
  ELSE IF Head(sorted).timestamp.t > x.timestamp.t
       THEN <<Head(sorted)>> \o InsertDescUnstable(Tail(sorted), x)
       ELSE <<x>> \o sorted

InsertDesc(sorted, x) ==
  IF sorted = <<>> THEN <<x>>
  ELSE IF Head(sorted).timestamp.t >= x.timestamp.t
       THEN <<Head(sorted)>> \o InsertDesc(Tail(sorted), x)
       ELSE <<x>> \o sorted

RECURSIVE SortDesc(_)
SortDesc(s) ==
  IF s = <<>> THEN <<>>
  ELSE InsertDesc(SortDesc(SubSeq(s, 1, Len(s) - 1)), s[Len(s)])

\* the sort compares aware with naive keys as soon as both kinds are present
SortComparable(s) ==
  \A i, j \in 1..Len(s) : DtAware(s[i].timestamp) = DtAware(s[j].timestamp)

\* line 319 catches ValueError only: datetime.fromisoformat of a stored value
\* that is not a string (a JSON number) raises TypeError out of the loop
TimestampRaises(ed) == ed.timestamp.kind = "num"

\* the filters the loop applies before it looks at the timestamp (lines 296-310)
ReachesDateFilter(ed, p) ==
  UserFilter(ed, p) /\ CategoryFilter(ed, p) /\ TagFilter(ed, p)

\* the exception one pass of the loop body lets escape, "" when none
RecordRaises(ed, p) ==
  IF ~ReachesDateFilter(ed, p) THEN ""
  ELSE IF TimestampRaises(ed) THEN "TypeError"
  ELSE IF Passes(ed, p) THEN Entry_from_dict_exc(ed)
  ELSE ""

\* the outcome of Database.query_entries over the entries dict: the first
\* record that raises ends the loop
QueryEntries(entries, p) ==
  IF Validate(p) # "ok" THEN [exc |-> Validate(p), res |-> <<>>]
  ELSE IF \E i \in 1..Len(entries) : RecordRaises(entries[i], p) # ""
  THEN [exc |-> RecordRaises(entries[CHOOSE i \in 1..Len(entries) :
                        /\ RecordRaises(entries[i], p) # ""
                        /\ \A j \in 1..(i - 1) : RecordRaises(entries[j], p) = ""], p),
        res |-> <<>>]
  ELSE LET hit == SelectSeq(entries, LAMBDA ed : Passes(ed, p))
           objs == [i \in 1..Len(hit) |-> Entry_from_dict(hit[i])]
       IN IF ~SortComparable(objs)
          THEN [exc |-> "TypeError", res |-> <<>>]
          ELSE [exc |-> "", res |-> SortDesc(objs)]

---------------------------------------------------------------------------
(* database/database.py : the store, its file, CRUD *)

UserKey == "user_id"
EntryKey == "entry_id"
CategoryKey == "category_id"
TagKey == "tag_id"
BudgetKey == "budget_id"

EmptyData ==
  [users |-> <<>>, entries |-> <<>>, categories |-> <<>>, tags |-> <<>>,
   budgets |-> <<>>]

\* _init_default_categories: 9 expense categories, then 5 income categories
DefaultCategoryList ==
  << <<"canyin", "expense">>, <<"gouwu", "expense">>, <<"jiaotong", "expense">>,
     <<"yule", "expense">>, <<"yiliao", "expense">>, <<"jiaoyu", "expense">>,
     <<"zhufang", "expense">>, <<"tongxun", "expense">>, <<"qita_zhichu", "expense">>,
     <<"gongzi", "income">>, <<"jiangjin", "income">>, <<"touzi", "income">>,
     <<"jianzhi", "income">>, <<"qita_shouru", "income">> >>

\* the ids uuid4 gives the default categories
DefaultCategoryId(i) == 100 + i

DefaultCategories ==
  [i \in 1..Len(DefaultCategoryList) |->
     Category_to_dict(CategoryNew(DefaultCategoryList[i][1], DefaultCategoryList[i][2],
                                  DefaultCategoryId(i)))]

\* what the environment does to one open(..., 'w') + json.dump
WriteOutcomes == {"ok", "denied", "partial"}

FileOf(d) == [kind |-> "data", data |-> d]
CorruptFile == [kind |-> "corrupt", data |-> EmptyData]

\* _save_to_file: the whole dataset replaces the file; a refused open leaves the
\* file as it was, a write that stops midway leaves it unparsable; both re-raise
WriteFile(d, dk, wr) ==
  CASE wr = "ok" -> FileOf(d)
    [] wr = "denied" -> dk
    [] OTHER -> CorruptFile

WriteRaises(wr) == wr # "ok"

\* the outcome of a store operation: new memory, new file, return value, exception
Outcome(d, dk, ok, exc) == [data |-> d, disk |-> dk, ok |-> ok, exc |-> exc]

\* save_*: mutate memory, then write; any exception is swallowed into False
SaveOutcome(d2, dk, wr) == Outcome(d2, WriteFile(d2, dk, wr), ~WriteRaises(wr), "")

\* delete_* and clear_all_data: the write is not guarded, its exception escapes
UnguardedWrite(d2, dk, wr) ==
  Outcome(d2, WriteFile(d2, dk, wr), ~WriteRaises(wr),
          IF WriteRaises(wr) THEN "OSError" ELSE "")

PutEntry(d, e) == [d EXCEPT !.entries = DictPut(@, EntryKey, Entry_to_dict(e))]

\* mutant: the file is written first and memory is touched only on success
save_entry_WriteFirst(d, dk, e, wr) ==
  IF WriteRaises(wr) THEN Outcome(d, WriteFile(PutEntry(d, e), dk, wr), FALSE, "")
  ELSE SaveOutcome(PutEntry(d, e), dk, wr)

save_entry(d, dk, e, wr) == SaveOutcome(PutEntry(d, e), dk, wr)

\* get_entry_by_id: None when absent, else Entry.from_dict (which may raise)
get_entry_by_id(d, id) ==
  IF ~DictHas(d.entries, EntryKey, id) THEN [exc |-> "", res |-> None]
  ELSE IF ~Entry_from_dict_ok(Val(DictGet(d.entries, EntryKey, id)))
       THEN [exc |-> Entry_from_dict_exc(Val(DictGet(d.entries, EntryKey, id))),
             res |-> None]
       ELSE [exc |-> "",
             res |-> Some(Entry_from_dict(Val(DictGet(d.entries, EntryKey, id))))]

delete_entry(d, dk, id, wr) ==
  IF DictHas(d.entries, EntryKey, id)
  THEN UnguardedWrite([d EXCEPT !.entries = DictDel(@, EntryKey, id)], dk, wr)
  ELSE Outcome(d, dk, FALSE, "")

query_entries(d, p) == QueryEntries(d.entries, p)

PutUser(d, u) == [d EXCEPT !.users = DictPut(@, UserKey, User_to_dict(u))]
save_user(d, dk, u, wr) == SaveOutcome(PutUser(d, u), dk, wr)

get_user_by_id(d, id) ==
  IF DictHas(d.users, UserKey, id)
  THEN Some(User_from_dict(Val(DictGet(d.users, UserKey, id))))
  ELSE None

\* get_user_by_email: linear scan, the first match in iteration order
EmailMatches(d, email) == {i \in 1..Len(d.users) : d.users[i].email = email}
get_user_by_email(d, email) ==
  IF EmailMatches(d, email) = {} THEN None
  ELSE Some(User_from_dict(
         d.users[CHOOSE i \in EmailMatches(d, email) :
                   \A j \in EmailMatches(d, email) : i <= j]))

\* mutant: the cascade forgets the budgets
DeleteUserDataKeepsBudgets(d, id) ==
  [d EXCEPT !.users = DictDel(@, UserKey, id),
            !.entries = SelectSeq(@, LAMBDA ed : ed.user_id # id)]

\* delete_user, the in-memory part: the user, then every entry and every
\* budget whose user_id is that user's
DeleteUserData(d, id) ==
  [d EXCEPT !.users = DictDel(@, UserKey, id),
            !.entries = SelectSeq(@, LAMBDA ed : ed.user_id # id),
            !.budgets = SelectSeq(@, LAMBDA bd : bd.user_id # id)]

delete_user(d, dk, id, wr) ==
  IF ~DictHas(d.users, UserKey, id) THEN Outcome(d, dk, FALSE, "")
  ELSE UnguardedWrite(DeleteUserData(d, id), dk, wr)

PutCategory(d, c) ==
  [d EXCEPT !.categories = DictPut(@, CategoryKey, Category_to_dict(c))]

\* mutant: entries refer to the category instead of holding a copy, so a saved
\* category shows through every entry created from it
save_category_Live(d, dk, c, wr) ==
  SaveOutcome([PutCategory(d, c) EXCEPT !.entries =
                 [i \in 1..Len(@) |->
                    IF @[i].category.category_id = c.category_id
                    THEN [@[i] EXCEPT !.category = Category_to_dict(c)]
                    ELSE @[i]]], dk, wr)

save_category(d, dk, c, wr) == SaveOutcome(PutCategory(d, c), dk, wr)

get_category_by_id(d, id) ==
  IF DictHas(d.categories, CategoryKey, id)
  THEN Some(Category_from_dict(Val(DictGet(d.categories, CategoryKey, id))))
  ELSE None

PutTag(d, t) == [d EXCEPT !.tags = DictPut(@, TagKey, Tag_to_dict(t))]

\* mutant: the tag is kept in memory and reported saved, nothing is written
save_tag_NoWrite(d, dk, t, wr) == Outcome(PutTag(d, t), dk, TRUE, "")

save_tag(d, dk, t, wr) == SaveOutcome(PutTag(d, t), dk, wr)

get_tag_by_id(d, id) ==
  IF DictHas(d.tags, TagKey, id)
  THEN Some(Tag_from_dict(Val(DictGet(d.tags, TagKey, id))))
  ELSE None

PutBudget(d, b) == [d EXCEPT !.budgets = DictPut(@, BudgetKey, Budget_to_dict(b))]
save_budget(d, dk, b, wr) == SaveOutcome(PutBudget(d, b), dk, wr)

get_budget_by_id(d, id) ==
  IF DictHas(d.budgets, BudgetKey, id)
  THEN Some(Budget_from_dict(Val(DictGet(d.budgets, BudgetKey, id))))
  ELSE None

get_budgets_by_user(d, user_id) ==
  LET own == SelectSeq(d.budgets, LAMBDA bd : bd.user_id = user_id)
  IN [i \in 1..Len(own) |-> Budget_from_dict(own[i])]

---------------------------------------------------------------------------
(* The state after Database.__init__ / AppLogic.__init__ on a fresh path *)

InitData == [EmptyData EXCEPT !.categories = DefaultCategories]

NoCall == [op |-> "init", arg |-> <<>>, ok |-> TRUE, exc |-> "", res |-> <<>>]

Call(op, arg, ok, exc, res) ==
  [op |-> op, arg |-> arg, ok |-> ok, exc |-> exc, res |-> res]

Init ==
  /\ data = InitData
  /\ disk = FileOf(InitData)
  /\ current_user = None
  /\ last = NoCall

---------------------------------------------------------------------------
(* Store-level steps: a caller holding the Database object *)

DbSaveEntry(e, wr) ==
  LET o == save_entry(data, disk, e, wr)
  IN /\ data' = o.data
     /\ disk' = o.disk
     /\ last' = Call("save_entry", e, o.ok, o.exc, <<>>)
     /\ UNCHANGED current_user

DbDeleteEntry(id, wr) ==
  LET o == delete_entry(data, disk, id, wr)
  IN /\ data' = o.data
     /\ disk' = o.disk
     /\ last' = Call("delete_entry", id, o.ok, o.exc, <<>>)
     /\ UNCHANGED current_user

DbSaveUser(u, wr) ==
  LET o == save_user(data, disk, u, wr)
  IN /\ data' = o.data
     /\ disk' = o.disk
     /\ last' = Call("save_user", u, o.ok, o.exc, <<>>)
     /\ UNCHANGED current_user

DbDeleteUser(id, wr) ==
  LET o == delete_user(data, disk, id, wr)
  IN /\ data' = o.data
     /\ disk' = o.disk
     /\ last' = Call("delete_user", id, o.ok, o.exc, <<>>)
     /\ UNCHANGED current_user

DbSaveCategory(c, wr) ==
  LET o == save_category(data, disk, c, wr)
  IN /\ data' = o.data
     /\ disk' = o.disk
     /\ last' = Call("save_category", c, o.ok, o.exc, <<>>)
     /\ UNCHANGED current_user

DbSaveTag(t, wr) ==
  LET o == save_tag(data, disk, t, wr)
  IN /\ data' = o.data
     /\ disk' = o.disk
     /\ last' = Call("save_tag", t, o.ok, o.exc, <<>>)
     /\ UNCHANGED current_user

DbSaveBudget(b, wr) ==
  LET o == save_budget(data, disk, b, wr)
  IN /\ data' = o.data
     /\ disk' = o.disk
     /\ last' = Call("save_budget", b, o.ok, o.exc, <<>>)
     /\ UNCHANGED current_user

DbQueryEntries(p) ==
  LET q == query_entries(data, p)
  IN /\ last' = Call("query_entries", p, q.exc = "", q.exc, q.res)
     /\ UNCHANGED <<data, disk, current_user>>

--------------------------------------------------------------------------------------------------------------------------------------------
(* Date specification: one user's entries that differ in timestamp (instant *)
(* and awareness), queried over date ranges; the file is writable.          *)

EntryIds == 1..MaxEntries
Times == 1..MaxTime
DateTimes == {Dt(t, a) : t \in Times, a \in BOOLEAN}

FoodCategory == Category_from_dict(DefaultCategories[1])
TitleLunch == <<"A", "b">>
Ten == Dec(10, 0)

OptionalOf(S) == {None} \cup {Some(x) : x \in S}

EntryInputsD ==
  {EntryNew(id, 1, FoodCategory, TitleLunch, Ten, "CNY", None, ts) :
     id \in EntryIds, ts \in DateTimes}

\* amount bounds that are absent, in order, equal and inverted
AmountPairsD ==
  {<<None, None>>, <<Some(Dec(5, 0)), Some(Dec(20, 0))>>,
   <<Some(Dec(10, 0)), Some(Dec(100, -1))>>, <<Some(Dec(20, 0)), Some(Dec(5, 0))>>}

\* every pair of date bounds without amount bounds, and the date pairs with
\* t = 1 under every pair of amount bounds
QueryInputsD ==
  {QueryParams(Some(1), None, None, sd, ed, None, None, None) :
     sd \in OptionalOf(DateTimes), ed \in OptionalOf(DateTimes)}
  \cup
  {QueryParams(Some(1), None, None, sd, ed, ap[1], ap[2], None) :
     sd \in OptionalOf({Dt(1, FALSE)}), ed \in OptionalOf({Dt(1, FALSE)}),
     ap \in AmountPairsD}

SaveEntryD == \E e \in EntryInputsD : DbSaveEntry(e, "ok")
DeleteEntryD == \E id \in EntryIds : DbDeleteEntry(id, "ok")
QueryD == \E p \in QueryInputsD : DbQueryEntries(p)

NextD == SaveEntryD \/ DeleteEntryD \/ QueryD

SpecDate == Init /\ [][NextD]_vars

--------------------------------------------------------------------------------------------------------------------------------------------
(* Amount specification: one user's entries that differ in amount, queried  *)
(* over amount ranges (and naive date ranges); the file is writable.        *)

\* 10, 10.0 (the same value in another representation) and 20
AmountsA == {Dec(10, 0), Dec(100, -1), Dec(20, 0)}
\* bounds a caller may pass: also a negative amount
AmountBoundsA == AmountsA \cup {Dec(-5, 0)}
Noon == Dt(1, FALSE)

EntryInputsA ==
  {EntryNew(id, 1, FoodCategory, TitleLunch, amt, "CNY", None, Noon) :
     id \in EntryIds, amt \in AmountsA}

\* date bounds that are absent, equal and inverted
DatePairsA ==
  {<<Some(Noon), Some(Noon)>>, <<Some(Dt(2, FALSE)), Some(Noon)>>}

QueryInputsA ==
  {QueryParams(Some(1), None, None, None, None, mn, mx, None) :
     mn \in OptionalOf(AmountBoundsA), mx \in OptionalOf(AmountBoundsA)}
  \cup
  {QueryParams(Some(1), None, None, dp[1], dp[2], mn, mx, None) :
     dp \in DatePairsA, mn \in OptionalOf({Dec(10, 0)}),
     mx \in OptionalOf({Dec(5, 0), Dec(10, 0)})}

SaveEntryA == \E e \in EntryInputsA : DbSaveEntry(e, "ok")
DeleteEntryA == \E id \in EntryIds : DbDeleteEntry(id, "ok")
QueryA == \E p \in QueryInputsA : DbQueryEntries(p)

NextA == SaveEntryA \/ DeleteEntryA \/ QueryA

SpecAmt == Init /\ [][NextA]_vars

---------------------------------------------------------------------------
(* Tag specification: two users' entries that differ in their tags, queried *)
(* by tag ids; the file is writable.                                        *)

TaggedEntryIds == 1..MaxTagged
TagIds == 1..MaxTags
TagName == <<"a">>
TagObj(i) == TagNew(TagName, None, i)

\* the tag lists Entry.add_tag can build: no tag twice, in ascending id order
RECURSIVE TagListsUpTo(_)
TagListsUpTo(n) ==
  IF n = 0 THEN {<<>>}
  ELSE TagListsUpTo(n - 1) \cup {Append(l, TagObj(n)) : l \in TagListsUpTo(n - 1)}
TagLists == TagListsUpTo(MaxTags)

RECURSIVE AddTags(_, _)
AddTags(e, l) == IF l = <<>> THEN e ELSE AddTags(Entry_add_tag(e, Head(l)), Tail(l))

UserIds == 1..MaxUsers

EntryInputsT ==
  {AddTags(EntryNew(id, u, FoodCategory, TitleLunch, Ten, "CNY", None, Noon), l) :
     id \in TaggedEntryIds, u \in UserIds, l \in TagLists}

\* requested tag ids: None, the empty list, and every list of distinct ids
TagIdLists ==
  {<<>>} \cup {<<i>> : i \in TagIds} \cup {l \in {<<i, j>> : i \in TagIds, j \in TagIds} : l[1] # l[2]}

QueryInputsT ==
  {QueryParams(u, None, tg, None, None, None, None, None) :
     u \in OptionalOf(UserIds), tg \in OptionalOf(TagIdLists)}

SaveEntryT == \E e \in EntryInputsT : DbSaveEntry(e, "ok")
DeleteEntryT == \E id \in TaggedEntryIds : DbDeleteEntry(id, "ok")
QueryT == \E p \in QueryInputsT : DbQueryEntries(p)

NextT == SaveEntryT \/ DeleteEntryT \/ QueryT

SpecTag == Init /\ [][NextT]_vars

----------
(* What the claims say about a query, written from the claims *)

IsQuery == last.op = "query_entries"
QueryReturned == IsQuery /\ last.exc = ""
StoredEntries == Range(data.entries)
ResultIds == {last.res[i].entry_id : i \in 1..Len(last.res)}
PosInStore(id) == IndexOf(data.entries, EntryKey, id)

\* two datetimes can be ordered when both or neither carry a zone
Comparable(a, b) == a.aware = b.aware
Within(ts, sd, ed) ==
  /\ IsSome(sd) => (Comparable(ts, Val(sd)) /\ ts.t >= Val(sd).t)
  /\ IsSome(ed) => (Comparable(ts, Val(ed)) /\ ts.t <= Val(ed).t)

AmountWithin(a, mn, mx) ==
  /\ IsSome(mn) => DecScaled(a) >= DecScaled(Val(mn))
  /\ IsSome(mx) => DecScaled(a) <= DecScaled(Val(mx))

KeywordGiven(k) == IsSome(k) /\ Strip(Val(k)) # <<>>
KeywordIn(text, k) == Contains(Lower(text), Lower(Strip(Val(k))))

TagsGiven(tg) == IsSome(tg)
HasOneOf(ed, ids) ==
  \E j \in 1..Len(ed.tags) : \E i \in 1..Len(ids) : ed.tags[j].tag_id = ids[i]

\* the filters other than the tag filter, all at once
SatisfiesButTags(ed, p) ==
  /\ IsSome(p.user_id) => ed.user_id = Val(p.user_id)
  /\ IsSome(p.category_id) => ed.category.category_id = Val(p.category_id)
  /\ Within(ed.timestamp, p.start_date, p.end_date)
  /\ AmountWithin(ed.amount, p.min_amount, p.max_amount)
  /\ KeywordGiven(p.keyword) =>
       (KeywordIn(ed.title, p.keyword) \/ KeywordIn(ed.note, p.keyword))

\* every provided filter at once, the tag filter as the code applies it
SatisfiesAll(ed, p) ==
  /\ SatisfiesButTags(ed, p)
  /\ (TagsGiven(p.tag_ids) /\ Val(p.tag_ids) # <<>>) => HasOneOf(ed, Val(p.tag_ids))

DatesInOrder(p) ==
  (IsSome(p.start_date) /\ IsSome(p.end_date)) =>
     (Comparable(Val(p.start_date), Val(p.end_date))
      /\ Val(p.start_date).t <= Val(p.end_date).t)
DatesInverted(p) ==
  /\ IsSome(p.start_date) /\ IsSome(p.end_date)
  /\ Comparable(Val(p.start_date), Val(p.end_date))
  /\ Val(p.start_date).t > Val(p.end_date).t
AmountsInverted(p) ==
  /\ IsSome(p.min_amount) /\ IsSome(p.max_amount)
  /\ DecScaled(Val(p.min_amount)) > DecScaled(Val(p.max_amount))
ValidParams(p) == DatesInOrder(p) /\ ~AmountsInverted(p)

---------------------------------------------------------------------------
\* C1: query_entries called with valid parameters returns exactly the stored
\* entries that satisfy every provided filter at once: none left out, none
\* returned that fails a filter.
C1_ReturnsExactlyTheMatches ==
  (IsQuery /\ ValidParams(last.arg)) =>
     /\ last.exc = ""
     /\ Len(last.res) = Cardinality(ResultIds)
     /\ ResultIds = {ed.entry_id : ed \in {x \in StoredEntries : SatisfiesAll(x, last.arg)}}

\* C2: the returned sequence is ordered by timestamp descending, and entries
\* with an identical timestamp keep the order in which the store iterates them.
C2_SortedDescStable ==
  QueryReturned =>
    \A i, j \in 1..Len(last.res) :
      i < j =>
        /\ last.res[i].timestamp.t >= last.res[j].timestamp.t
        /\ last.res[i].timestamp.t = last.res[j].timestamp.t
             => PosInStore(last.res[i].entry_id) < PosInStore(last.res[j].entry_id)

\* C2 witness: three entries returned, two of them with the same timestamp and
\* the third with another one
C2_Witness ==
  /\ QueryReturned
  /\ Len(last.res) = 3
  /\ \E i, j \in 1..3 : i # j /\ last.res[i].timestamp = last.res[j].timestamp
  /\ \E i, j \in 1..3 : last.res[i].timestamp.t # last.res[j].timestamp.t

C5_NeverRaises ==
  (/\ IsQuery
   /\ IsSome(last.arg.start_date) => ~Val(last.arg.start_date).aware
   /\ IsSome(last.arg.end_date) => ~Val(last.arg.end_date).aware)
    => last.exc = ""

C6_TagFilterWheneverProvided ==
  (IsQuery /\ TagsGiven(last.arg.tag_ids)) =>
     /\ last.exc = ""
     /\ \A ed \in StoredEntries :
          ed.entry_id \in ResultIds
            <=> (SatisfiesButTags(ed, last.arg) /\ HasOneOf(ed, Val(last.arg.tag_ids)))

\* C6, amended: a non-empty tag_ids keeps exactly the entries carrying at
\* least one requested tag (OR, not AND); an empty tag_ids list counts as not
\* provided and filters nothing.
C6_TagFilterOr ==
  IsQuery =>
     /\ last.exc = ""
     /\ \A ed \in StoredEntries :
          ed.entry_id \in ResultIds
            <=> /\ SatisfiesButTags(ed, last.arg)
                /\ (TagsGiven(last.arg.tag_ids) /\ Val(last.arg.tag_ids) # <<>>)
                     => HasOneOf(ed, Val(last.arg.tag_ids))

\* C6 witness: tags 1 and 2 are requested; an entry tagged only with 1 is
\* returned and an entry without tags is not
C6_Witness ==
  /\ QueryReturned
  /\ last.arg.tag_ids = Some(<<1, 2>>)
  /\ \E i \in 1..Len(last.res) :
       Len(last.res[i].tags) = 1 /\ last.res[i].tags[1].tag_id = 1
  /\ \E ed \in StoredEntries :
       ed.tags = <<>> /\ ed.entry_id \notin ResultIds /\ SatisfiesButTags(ed, last.arg)

---------------------------------------------------------------------------
(* SpecSave: the five save_* operations against a file that may refuse or
   truncate the write *)

EmailAnn == <<"a", "@", "x", ".", "i", "o">>
EmailBob == <<"b", "@", "x", ".", "i", "o">>
UserAnn == UserNew(1, EmailAnn, "13800000000", "secret1", <<"A", "n", "n">>)
UserBob == UserNew(2, EmailBob, "13900000000", "secret2", <<"B", "o", "b">>)
PetsCategory == CategoryNew("Pets", "expense", 1)
TagTrip == TagNew(<<"t", "r", "i", "p">>, None, 1)
Hundred == Dec(100, 0)
BudgetMonthly == BudgetNew(1, 1, "monthly", Hundred, 80, None)

\* one entry id under two amounts, so that a save inserts or overwrites
EntryInputsS ==
  {EntryNew(1, 1, FoodCategory, TitleLunch, a, "CNY", None, Noon) :
     a \in {Ten, Dec(20, 0)}}

SaveUserS == \E wr \in WriteOutcomes : DbSaveUser(UserAnn, wr)
SaveEntryS == \E e \in EntryInputsS, wr \in WriteOutcomes : DbSaveEntry(e, wr)
SaveCategoryS == \E wr \in WriteOutcomes : DbSaveCategory(PetsCategory, wr)
SaveTagS == \E wr \in WriteOutcomes : DbSaveTag(TagTrip, wr)
SaveBudgetS == \E wr \in WriteOutcomes : DbSaveBudget(BudgetMonthly, wr)

NextS == SaveUserS \/ SaveEntryS \/ SaveCategoryS \/ SaveTagS \/ SaveBudgetS

SpecSave == Init /\ [][NextS]_vars

---------------------------------------------------------------------------
(* SpecDb: users with the entries and budgets they own; deleting a user may
   meet a failing write *)

OwnedIds == 1..MaxOwned

UserInputsB == {UserAnn, UserBob}
EntryInputsB ==
  {EntryNew(id, u, FoodCategory, TitleLunch, Ten, "CNY", None, Noon) :
     id \in OwnedIds, u \in UserIds}
BudgetInputsB ==
  {BudgetNew(id, u, "monthly", Hundred, 80, None) : id \in OwnedIds, u \in UserIds}

SaveUserB == \E u \in UserInputsB : DbSaveUser(u, "ok")
SaveEntryB == \E e \in EntryInputsB : DbSaveEntry(e, "ok")
SaveBudgetB == \E b \in BudgetInputsB : DbSaveBudget(b, "ok")
SaveTagB == DbSaveTag(TagTrip, "ok")
DeleteUserB == \E id \in UserIds, wr \in WriteOutcomes : DbDeleteUser(id, wr)

NextB == SaveUserB \/ SaveEntryB \/ SaveBudgetB \/ SaveTagB \/ DeleteUserB

SpecDb == Init /\ [][NextB]_vars

---------------------------------------------------------------------------
(* C7, C10 *)

AllOfUser(u) == QueryParams(Some(u), None, None, None, None, None, None, None)
NotOf(u, coll) == SelectSeq(coll, LAMBDA r : r.user_id # u)

\* what the getters of the store find for user u, on a dataset d
NothingOwnedBy(d, before, u) ==
  /\ get_user_by_id(d, u) = None
  /\ \A i \in 1..Len(before.entries) :
       before.entries[i].user_id = u =>
         get_entry_by_id(d, before.entries[i].entry_id).res = None
  /\ query_entries(d, AllOfUser(u)) = [exc |-> "", res |-> <<>>]
  /\ \A i \in 1..Len(before.budgets) :
       before.budgets[i].user_id = u =>
         get_budget_by_id(d, before.budgets[i].budget_id) = None
  /\ get_budgets_by_user(d, u) = <<>>

OthersUntouched(d, before, u) ==
  /\ \A v \in UserIds \ {u} : get_user_by_id(d, v) = get_user_by_id(before, v)
  /\ NotOf(u, d.entries) = NotOf(u, before.entries)
  /\ NotOf(u, d.budgets) = NotOf(u, before.budgets)
  /\ d.categories = before.categories
  /\ d.tags = before.tags

\* C7: after delete_user(u) on a known user, no entry and no budget owned by u
\* can be reached through the store any more, u itself is gone, and the records
\* of every other user are exactly as they were
C7_DeleteUserCascades ==
  [][(last'.op = "delete_user" /\ DictHas(data.users, UserKey, last'.arg)) =>
       /\ NothingOwnedBy(data', data, last'.arg)
       /\ OthersUntouched(data', data, last'.arg)]_vars

\* C7 witness: a known user who owned an entry and a budget has been deleted
\* while another user's entry and budget stay in the store
C7_Witness ==
  /\ last.op = "delete_user" /\ last.ok /\ last.arg = 1
  /\ disk.kind = "data"
  /\ \E i \in 1..Len(disk.data.entries) : disk.data.entries[i].user_id = 2
  /\ \E i \in 1..Len(data.entries) : data.entries[i].user_id = 2
  /\ \E i \in 1..Len(data.budgets) : data.budgets[i].user_id = 2
  /\ get_user_by_id(data, 2) # None
  /\ get_user_by_id(data, 1) = None

SaveOps == {"save_user", "save_entry", "save_category", "save_tag", "save_budget"}

\* the record handed to the last save_*, as the getters of the store return it
SavedIsVisible ==
  CASE last.op = "save_user" -> get_user_by_id(data, last.arg.user_id) = Some(last.arg)
    [] last.op = "save_entry" ->
         /\ get_entry_by_id(data, last.arg.entry_id) = [exc |-> "", res |-> Some(last.arg)]
         /\ LET q == query_entries(data, AllOfUser(last.arg.user_id))
            IN q.exc = "" /\ \E i \in 1..Len(q.res) : q.res[i] = last.arg
    [] last.op = "save_category" ->
         get_category_by_id(data, last.arg.category_id) = Some(last.arg)
    [] last.op = "save_tag" -> get_tag_by_id(data, last.arg.tag_id) = Some(last.arg)
    [] last.op = "save_budget" ->
         get_budget_by_id(data, last.arg.budget_id) = Some(last.arg)
    [] OTHER -> TRUE

\* C10: a save_* whose write fails returns False without raising, memory already
\* holds the record (get_*_by_id and query_entries return it), and the file has
\* not received it: it is as it was, or unparsable
C10_FailedSaveKeepsMemory ==
  [][(last'.op \in SaveOps /\ ~last'.ok) =>
       /\ last'.exc = ""
       /\ SavedIsVisible'
       /\ disk' \in {disk, CorruptFile}]_vars

\* C10 witness: a failed save_entry whose entry is in memory and not in the file
C10_Witness ==
  /\ last.op = "save_entry" /\ ~last.ok /\ last.exc = ""
  /\ disk.kind = "data"
  /\ ~DictHas(disk.data.entries, EntryKey, last.arg.entry_id)
  /\ get_entry_by_id(data, last.arg.entry_id).res = Some(last.arg)

---------------------------------------------------------------------------
(* services/auth_service.py *)

Letters ==
  {"a", "b", "c", "d", "e", "f", "g", "h", "i", "j", "k", "l", "m", "n", "o", "p",
   "q", "r", "s", "t", "u", "v", "w", "x", "y", "z",
   "A", "B", "C", "D", "E", "F", "G", "H", "I", "J", "K", "L", "M", "N", "O", "P",
   "Q", "R", "S", "T", "U", "V", "W", "X", "Y", "Z"}
Digits == {"0", "1", "2", "3", "4", "5", "6", "7", "8", "9"}
LocalChars == Letters \cup Digits \cup {".", "_", "%", "+", "-"}
DomainChars == Letters \cup Digits \cup {".", "-"}

AllIn(s, from, to, chars) == \A k \in from..to : s[k] \in chars

\* ^[a-zA-Z0-9._%+-]+@[a-zA-Z0-9.-]+\.[a-zA-Z]{2,}$ on the first n characters
EmailPattern(s, n) ==
  \E i \in 2..n : \E j \in (i + 2)..(n - 2) :
    /\ s[i] = "@" /\ s[j] = "."
    /\ AllIn(s, 1, i - 1, LocalChars)
    /\ AllIn(s, i + 1, j - 1, DomainChars)
    /\ AllIn(s, j + 1, n, Letters)

\* re.match with $ : the end of the text, or just before one final newline
validate_email(email) ==
  \/ EmailPattern(email, Len(email))
  \/ (Len(email) > 0 /\ email[Len(email)] = "\n" /\ EmailPattern(email, Len(email) - 1))

\* the pattern check sits after an unconditional return True
validate_phone(phone) == TRUE

validate_password(password) == Len(password) >= 6

\* the outcome of an application-layer call: new memory, new file, new active
\* identity, success flag, escaped exception
AppOutcome(d, dk, cu, ok, exc) ==
  [data |-> d, disk |-> dk, cu |-> cu, ok |-> ok, exc |-> exc]
Refused(d, dk, cu) == AppOutcome(d, dk, cu, FALSE, "")
Raised(d, dk, cu, exc) == AppOutcome(d, dk, cu, FALSE, exc)

\* uuid.uuid4(): an id no record of the collection carries
FreshId(coll, Key, ids) ==
  CHOOSE id \in ids : ~DictHas(coll, Key, id) /\
                      \A other \in ids : ~DictHas(coll, Key, other) => id <= other
HasFreshId(coll, Key, ids) == \E id \in ids : ~DictHas(coll, Key, id)

\* a new user's uuid4 differs from every user id still held anywhere: by the
\* users collection, by the active identity, by an entry or a budget
UsedUserIds(d, cu) ==
  {d.users[i].user_id : i \in 1..Len(d.users)}
  \cup {d.entries[i].user_id : i \in 1..Len(d.entries)}
  \cup {d.budgets[i].user_id : i \in 1..Len(d.budgets)}
  \cup (IF IsSome(cu) THEN {Val(cu).user_id} ELSE {})
HasFreshUserId(d, cu) == (1..MaxUsers) \ UsedUserIds(d, cu) # {}
FreshUserId(d, cu) ==
  CHOOSE id \in (1..MaxUsers) \ UsedUserIds(d, cu) :
    \A other \in (1..MaxUsers) \ UsedUserIds(d, cu) : id <= other

register(d, dk, cu, email, phone, password, nickname, wr) ==
  IF ~validate_email(email) THEN Refused(d, dk, cu)
  ELSE IF ~validate_phone(phone) THEN Refused(d, dk, cu)
  ELSE IF ~validate_password(password) THEN Refused(d, dk, cu)
  ELSE IF IsSome(get_user_by_email(d, email)) THEN Refused(d, dk, cu)
  ELSE IF ~UserRequire(email, phone, password, nickname) THEN Refused(d, dk, cu)
  ELSE LET user == UserNew(FreshUserId(d, cu), email, phone, password, nickname)
           o == save_user(d, dk, user, wr)
       IN AppOutcome(o.data, o.disk, cu, o.ok, "")

\* mutant: a wrong password signs the active user out
login_DropsIdentity(d, dk, cu, email, password) ==
  LET found == get_user_by_email(d, email)
  IN IF ~IsSome(found) THEN Refused(d, dk, cu)
     ELSE IF ~HashRequire(password) THEN Raised(d, dk, cu, "ViolationError")
     ELSE IF ~User_verify_password(Val(found), password) THEN Refused(d, dk, None)
     ELSE AppOutcome(d, dk, found, TRUE, "")

login(d, dk, cu, email, password) ==
  LET found == get_user_by_email(d, email)
  IN IF ~IsSome(found) THEN Refused(d, dk, cu)
     ELSE IF ~HashRequire(password) THEN Raised(d, dk, cu, "ViolationError")
     ELSE IF ~User_verify_password(Val(found), password) THEN Refused(d, dk, cu)
     ELSE AppOutcome(d, dk, found, TRUE, "")

logout(d, dk, cu) ==
  IF ~IsSome(cu) THEN Refused(d, dk, cu) ELSE AppOutcome(d, dk, None, TRUE, "")

\* User.update_password: two @require contracts, then the comparison
change_password(d, dk, cu, old_password, new_password, wr) ==
  IF ~IsSome(cu) THEN Refused(d, dk, cu)
  ELSE IF ~validate_password(new_password) THEN Refused(d, dk, cu)
  ELSE IF ~(Len(old_password) > 0 /\ Len(new_password) >= 6)
       THEN Raised(d, dk, cu, "ViolationError")
  ELSE IF ~User_verify_password(Val(cu), old_password) THEN Refused(d, dk, cu)
  ELSE LET user == [Val(cu) EXCEPT !.password_hash = Sha256(new_password)]
           o == save_user(d, dk, user, wr)
       IN AppOutcome(o.data, o.disk, Some(user), TRUE, "")

---------------------------------------------------------------------------
(* app_logic.py *)

delete_current_user(d, dk, cu, wr) ==
  IF ~IsSome(cu) THEN Refused(d, dk, cu)
  ELSE LET o == delete_user(d, dk, Val(cu).user_id, wr)
       IN IF o.exc # "" THEN Raised(o.data, o.disk, cu, o.exc)
          ELSE IF o.ok THEN AppOutcome(o.data, o.disk, None, TRUE, "")
          ELSE Refused(o.data, o.disk, cu)

\* Entry(...) is built outside any try block: a contract violation escapes
\* ids: the ids uuid4 may give the new entry
add_entry_ids(d, dk, cu, category_id, title, amount, timestamp, wr, ids) ==
  IF ~IsSome(cu) THEN Refused(d, dk, cu)
  ELSE IF ~IsSome(get_category_by_id(d, category_id)) THEN Refused(d, dk, cu)
  ELSE IF ~EntryRequire(title, amount, "CNY") THEN Raised(d, dk, cu, "ViolationError")
  ELSE LET entry == EntryNew(FreshId(d.entries, EntryKey, ids),
                             Val(cu).user_id, Val(get_category_by_id(d, category_id)),
                             title, amount, "CNY", None, timestamp)
           o == save_entry(d, dk, entry, wr)
       IN AppOutcome(o.data, o.disk, cu, o.ok, "")

add_entry(d, dk, cu, category_id, title, amount, timestamp, wr) ==
  add_entry_ids(d, dk, cu, category_id, title, amount, timestamp, wr, 1..MaxAppEntries)

\* `if title:` and `if amount:` skip None, the empty text and zero; the title is
\* assigned without a check, update_amount carries a contract
UpdatedEntry(entry, title, amount) ==
  LET t == IF IsSome(title) /\ Val(title) # <<>>
           THEN [entry EXCEPT !.title = Val(title)] ELSE entry
  IN IF IsSome(amount) /\ DecScaled(Val(amount)) # 0
     THEN [t EXCEPT !.amount = Val(amount)] ELSE t

update_entry(d, dk, cu, entry_id, title, amount, wr) ==
  LET g == get_entry_by_id(d, entry_id)
  IN IF g.exc # "" THEN Raised(d, dk, cu, g.exc)
     ELSE IF ~IsSome(g.res) THEN Refused(d, dk, cu)
     ELSE IF ~IsSome(cu) \/ Val(g.res).user_id # Val(cu).user_id THEN Refused(d, dk, cu)
     ELSE IF IsSome(amount) /\ DecScaled(Val(amount)) # 0 /\ ~DecPositive(Val(amount))
          THEN Raised(d, dk, cu, "ViolationError")
     ELSE LET o == save_entry(d, dk, UpdatedEntry(Val(g.res), title, amount), wr)
          IN AppOutcome(o.data, o.disk, cu, o.ok, "")

app_delete_entry(d, dk, cu, entry_id, wr) ==
  LET g == get_entry_by_id(d, entry_id)
  IN IF g.exc # "" THEN Raised(d, dk, cu, g.exc)
     ELSE IF ~IsSome(g.res) THEN Refused(d, dk, cu)
     ELSE IF ~IsSome(cu) \/ Val(g.res).user_id # Val(cu).user_id THEN Refused(d, dk, cu)
     ELSE LET o == delete_entry(d, dk, entry_id, wr)
          IN AppOutcome(o.data, o.disk, cu, o.ok, o.exc)

\* Tag(...) is built outside any try block; no identity is asked for
add_tag(d, dk, cu, name, wr) ==
  IF ~TagRequire(name) THEN Raised(d, dk, cu, "ViolationError")
  ELSE LET o == save_tag(d, dk, TagNew(name, None, FreshId(d.tags, TagKey, 1..MaxAppTags)), wr)
       IN AppOutcome(o.data, o.disk, cu, o.ok, "")

\* add_tag_to_entry looks up the entry and the tag and nothing else; the result
\* of save_entry is dropped
add_tag_to_entry(d, dk, cu, entry_id, tag_id, wr) ==
  LET g == get_entry_by_id(d, entry_id)
      tag == get_tag_by_id(d, tag_id)
  IN IF g.exc # "" THEN Raised(d, dk, cu, g.exc)
     ELSE IF ~IsSome(g.res) THEN Refused(d, dk, cu)
     ELSE IF ~IsSome(tag) THEN Refused(d, dk, cu)
     ELSE IF EntryHasTag(Val(g.res), Val(tag)) THEN Refused(d, dk, cu)
     ELSE LET o == save_entry(d, dk, Entry_add_tag(Val(g.res), Val(tag)), wr)
          IN AppOutcome(o.data, o.disk, cu, TRUE, "")

\* Budget(...) is built outside any try block: a bad threshold escapes
add_budget(d, dk, cu, period, limit_amount, threshold_percent, wr) ==
  IF ~IsSome(cu) THEN Refused(d, dk, cu)
  ELSE IF ~ThresholdOk(threshold_percent) THEN Raised(d, dk, cu, "ValueError")
  ELSE LET budget == BudgetNew(FreshId(d.budgets, BudgetKey, 1..MaxAppBudgets),
                               Val(cu).user_id, period, limit_amount,
                               threshold_percent, None)
           o == save_budget(d, dk, budget, wr)
       IN AppOutcome(o.data, o.disk, cu, o.ok, "")

---------------------------------------------------------------------------
(* Spec: the application layer, from an empty store with nobody signed in *)

\* one application-layer call as a step of the program
AppStep(op, arg, o) ==
  /\ data' = o.data
  /\ disk' = o.disk
  /\ current_user' = o.cu
  /\ last' = Call(op, arg, o.ok, o.exc, <<>>)

Register(email, phone, password, nickname) ==
  /\ HasFreshUserId(data, current_user)
  /\ AppStep("register", [email |-> email],
             register(data, disk, current_user, email, phone, password, nickname, "ok"))

Login(email, password) ==
  AppStep("login", [email |-> email, password |-> password],
          login(data, disk, current_user, email, password))

Logout == AppStep("logout", <<>>, logout(data, disk, current_user))

ChangePassword(old_password, new_password) ==
  AppStep("change_password", [old |-> old_password, new |-> new_password],
          change_password(data, disk, current_user, old_password, new_password, "ok"))

DeleteCurrentUser ==
  AppStep("delete_current_user", <<>>,
          delete_current_user(data, disk, current_user, "ok"))

AddEntry(category_id, title, amount) ==
  /\ HasFreshId(data.entries, EntryKey, 1..MaxAppEntries)
  /\ AppStep("add_entry", [title |-> title, amount |-> amount],
             add_entry(data, disk, current_user, category_id, title, amount,
                       Noon, "ok"))

UpdateEntry(entry_id, title, amount) ==
  AppStep("update_entry", [entry_id |-> entry_id, title |-> title, amount |-> amount],
          update_entry(data, disk, current_user, entry_id, title, amount, "ok"))

DeleteEntry(entry_id) ==
  AppStep("delete_entry", [entry_id |-> entry_id],
          app_delete_entry(data, disk, current_user, entry_id, "ok"))

AddTag(name) ==
  /\ HasFreshId(data.tags, TagKey, 1..MaxAppTags)
  /\ AppStep("add_tag", [name |-> name], add_tag(data, disk, current_user, name, "ok"))

AddTagToEntry(entry_id, tag_id) ==
  AppStep("add_tag_to_entry", [entry_id |-> entry_id, tag_id |-> tag_id],
          add_tag_to_entry(data, disk, current_user, entry_id, tag_id, "ok"))

AddBudget(threshold_percent) ==
  /\ HasFreshId(data.budgets, BudgetKey, 1..MaxAppBudgets)
  /\ AppStep("add_budget", [threshold_percent |-> threshold_percent],
             add_budget(data, disk, current_user, "monthly", Hundred,
                        threshold_percent, "ok"))

EmailBad == <<"a", "x", ".", "i", "o">>
NickAnn == <<"A", "n", "n">>
Blank == <<" ">>
Phone == "13800000000"
Secret == "secret1"

\* two good sign-ups, a malformed address, a short password, a blank nickname
RegisterInputs ==
  {<<EmailAnn, Phone, Secret, NickAnn>>, <<EmailBob, Phone, Secret, NickAnn>>,
   <<EmailBad, Phone, Secret, NickAnn>>, <<EmailAnn, Phone, "abc", NickAnn>>,
   <<EmailBob, Phone, Secret, Blank>>}
\* the right password, a wrong one, the empty one
LoginInputs == {EmailAnn, EmailBob} \X {Secret, "wrong!", ""}
\* the new password equals the old: the store keeps a single password per user
PasswordInputs == {Secret, "wrong!", ""} \X {Secret, "abc"}
\* a good entry, an unknown category, a non-positive amount, a blank title
AddEntryInputs ==
  {<<DefaultCategoryId(1), TitleLunch, Ten>>, <<999, TitleLunch, Ten>>,
   <<DefaultCategoryId(1), TitleLunch, Dec(-5, 0)>>,
   <<DefaultCategoryId(1), TitleLunch, Dec(0, 0)>>,
   <<DefaultCategoryId(1), Blank, Ten>>}
UpdateEntryInputs ==
  {<<None, Some(Dec(20, 0))>>, <<None, Some(Dec(-5, 0))>>, <<None, Some(Dec(0, 0))>>,
   <<Some(Blank), None>>, <<Some(<<"B">>), None>>}
AppEntryIds == 1..(MaxAppEntries + 1)
AppTagIds == 1..(MaxAppTags + 1)
TagNameInputs == {TagName, Blank}
ThresholdInputs == {80, 101, -1}

RegisterStep == \E r \in RegisterInputs : Register(r[1], r[2], r[3], r[4])
LoginStep == \E l \in LoginInputs : Login(l[1], l[2])
ChangePasswordStep == \E c \in PasswordInputs : ChangePassword(c[1], c[2])
AddEntryStep == \E a \in AddEntryInputs : AddEntry(a[1], a[2], a[3])
UpdateEntryStep ==
  \E id \in AppEntryIds, u \in UpdateEntryInputs : UpdateEntry(id, u[1], u[2])
DeleteEntryStep == \E id \in AppEntryIds : DeleteEntry(id)
AddTagStep == \E name \in TagNameInputs : AddTag(name)
AddTagToEntryStep == \E id \in AppEntryIds, t \in AppTagIds : AddTagToEntry(id, t)
AddBudgetStep == \E th \in ThresholdInputs : AddBudget(th)

Next ==
  \/ RegisterStep \/ LoginStep \/ Logout \/ ChangePasswordStep \/ DeleteCurrentUser
  \/ AddEntryStep \/ UpdateEntryStep \/ DeleteEntryStep
  \/ AddTagStep \/ AddTagToEntryStep \/ AddBudgetStep

Spec == Init /\ [][Next]_vars

---------------------------------------------------------------------------
(* C8, C9 *)

MutatingOps == {"add_entry", "update_entry", "delete_entry", "add_tag_to_entry", "add_budget"}
TargetingOps == {"update_entry", "delete_entry", "add_tag_to_entry"}

\* an identity is active and, when the call targets an existing entry, owns it
Authorized(cu, d, call) ==
  /\ IsSome(cu)
  /\ (call.op \in TargetingOps /\ DictHas(d.entries, EntryKey, call.arg.entry_id)) =>
       Val(DictGet(d.entries, EntryKey, call.arg.entry_id)).user_id = Val(cu).user_id

\* C8: a mutating application-layer call made without an active identity, or on
\* an existing record of another owner, fails and leaves the store unchanged
C8_OnlyOwnerMutates ==
  [][(last'.op \in MutatingOps /\ ~Authorized(current_user, data, last')) =>
       (~last'.ok /\ data' = data /\ disk' = disk)]_vars

AppOps ==
  {"register", "login", "logout", "change_password", "delete_current_user",
   "add_entry", "update_entry", "delete_entry", "add_tag", "add_tag_to_entry",
   "add_budget"}

\* C9: no exception escapes an application-layer call; a business-rule failure
\* comes back as success = False
C9_NoExceptionEscapes == last.op \in AppOps => last.exc = ""

---------------------------------------------------------------------------
(* database/database.py : the remaining delete_* operations and clear_all_data *)

delete_category(d, dk, id, wr) ==
  IF DictHas(d.categories, CategoryKey, id)
  THEN UnguardedWrite([d EXCEPT !.categories = DictDel(@, CategoryKey, id)], dk, wr)
  ELSE Outcome(d, dk, FALSE, "")

delete_tag(d, dk, id, wr) ==
  IF DictHas(d.tags, TagKey, id)
  THEN UnguardedWrite([d EXCEPT !.tags = DictDel(@, TagKey, id)], dk, wr)
  ELSE Outcome(d, dk, FALSE, "")

delete_budget(d, dk, id, wr) ==
  IF DictHas(d.budgets, BudgetKey, id)
  THEN UnguardedWrite([d EXCEPT !.budgets = DictDel(@, BudgetKey, id)], dk, wr)
  ELSE Outcome(d, dk, FALSE, "")

\* clear_all_data: empty the five collections, write, then seed the default
\* categories and write again; neither write is guarded, and a first write that
\* raises leaves memory without categories
clear_all_data(d, dk, wr1, wr2) ==
  IF WriteRaises(wr1)
  THEN Outcome(EmptyData, WriteFile(EmptyData, dk, wr1), FALSE, "OSError")
  ELSE Outcome(InitData, WriteFile(InitData, FileOf(EmptyData), wr2),
               ~WriteRaises(wr2), IF WriteRaises(wr2) THEN "OSError" ELSE "")

DbDeleteCategory(id, wr) ==
  LET o == delete_category(data, disk, id, wr)
  IN /\ data' = o.data
     /\ disk' = o.disk
     /\ last' = Call("delete_category", id, o.ok, o.exc, <<>>)
     /\ UNCHANGED current_user

DbDeleteTag(id, wr) ==
  LET o == delete_tag(data, disk, id, wr)
  IN /\ data' = o.data
     /\ disk' = o.disk
     /\ last' = Call("delete_tag", id, o.ok, o.exc, <<>>)
     /\ UNCHANGED current_user

DbDeleteBudget(id, wr) ==
  LET o == delete_budget(data, disk, id, wr)
  IN /\ data' = o.data
     /\ disk' = o.disk
     /\ last' = Call("delete_budget", id, o.ok, o.exc, <<>>)
     /\ UNCHANGED current_user

DbClearAllData(wr1, wr2) ==
  LET o == clear_all_data(data, disk, wr1, wr2)
  IN /\ data' = o.data
     /\ disk' = o.disk
     /\ last' = Call("clear_all_data", <<>>, o.ok, o.exc, <<>>)
     /\ UNCHANGED current_user

---------------------------------------------------------------------------
(* SpecDel: one record of each kind, saved, then deleted or cleared against a
   file that may refuse or truncate the write *)

SaveUserX == DbSaveUser(UserAnn, "ok")
SaveEntryX == DbSaveEntry(CHOOSE e \in EntryInputsS : e.amount = Ten, "ok")
SaveCategoryX == DbSaveCategory(PetsCategory, "ok")
SaveTagX == DbSaveTag(TagTrip, "ok")
SaveBudgetX == DbSaveBudget(BudgetMonthly, "ok")
DeleteUserX == \E id \in {1, 2}, wr \in WriteOutcomes : DbDeleteUser(id, wr)
DeleteEntryX == \E id \in {1, 2}, wr \in WriteOutcomes : DbDeleteEntry(id, wr)
DeleteCategoryX == \E id \in {1, 2}, wr \in WriteOutcomes : DbDeleteCategory(id, wr)
DeleteTagX == \E id \in {1, 2}, wr \in WriteOutcomes : DbDeleteTag(id, wr)
DeleteBudgetX == \E id \in {1, 2}, wr \in WriteOutcomes : DbDeleteBudget(id, wr)
ClearAllDataX == \E wr1 \in WriteOutcomes, wr2 \in WriteOutcomes : DbClearAllData(wr1, wr2)

NextX ==
  \/ SaveUserX \/ SaveEntryX \/ SaveCategoryX \/ SaveTagX \/ SaveBudgetX
  \/ DeleteUserX \/ DeleteEntryX \/ DeleteCategoryX \/ DeleteTagX \/ DeleteBudgetX
  \/ ClearAllDataX

SpecDel == Init /\ [][NextX]_vars

---------------------------------------------------------------------------
(* C11 *)

DeleteOps ==
  {"delete_user", "delete_entry", "delete_category", "delete_tag", "delete_budget"}
StoreMutators == SaveOps \cup DeleteOps \cup {"clear_all_data"}

\* C11: no mutating store operation raises, whatever the file write does; a
\* failed write shows as the return value False
C11_WriteFailureNeverRaises == last.op \in StoreMutators => last.exc = ""

---------------------------------------------------------------------------
(* services/auth_service.py : update_profile *)

\* User.update_profile: `if nickname:` / `if phone:` skip None and the empty
\* text; the service passes no email
UpdatedProfile(user, nickname, phone) ==
  LET n == IF IsSome(nickname) /\ Val(nickname) # <<>>
           THEN [user EXCEPT !.nickname = Val(nickname)] ELSE user
  IN IF IsSome(phone) /\ Val(phone) # "" THEN [n EXCEPT !.phone = Val(phone)] ELSE n

update_profile(d, dk, cu, nickname, phone, wr) ==
  IF ~IsSome(cu) THEN Refused(d, dk, cu)
  ELSE IF IsSome(phone) /\ Val(phone) # "" /\ ~validate_phone(Val(phone))
       THEN Refused(d, dk, cu)
  ELSE LET user == UpdatedProfile(Val(cu), nickname, phone)
           o == save_user(d, dk, user, wr)
       IN AppOutcome(o.data, o.disk, Some(user), o.ok, "")

---------------------------------------------------------------------------
(* SpecAuth: the account operations; the write of delete_current_user may fail *)

RegisterU(email, phone, password, nickname) ==
  /\ HasFreshUserId(data, current_user)
  /\ AppStep("register", [email |-> email, password |-> password],
             register(data, disk, current_user, email, phone, password, nickname, "ok"))

UpdateProfileU(nickname, phone) ==
  AppStep("update_profile", [nickname |-> nickname, phone |-> phone],
          update_profile(data, disk, current_user, nickname, phone, "ok"))

DeleteCurrentUserU(wr) ==
  AppStep("delete_current_user", <<>>,
          delete_current_user(data, disk, current_user, wr))

SecretTwo == "secret2"
EmailCat == <<"c", "@", "x", ".", "i", "o">>
NickZed == <<"Z">>

RegisterInputsU ==
  {<<EmailAnn, Secret>>, <<EmailAnn, SecretTwo>>, <<EmailBob, SecretTwo>>,
   <<EmailBad, Secret>>, <<EmailBob, "abc">>}
LoginInputsU ==
  ({EmailAnn, EmailBob} \X {Secret, SecretTwo, ""}) \cup {<<EmailCat, Secret>>}
\* a change, a change back, the same password again, an empty and a wrong old
\* password, a short new password
PasswordInputsU ==
  {<<Secret, SecretTwo>>, <<SecretTwo, Secret>>, <<Secret, Secret>>,
   <<"", SecretTwo>>, <<"wrong!", SecretTwo>>, <<Secret, "abc">>}

RegisterStepU == \E r \in RegisterInputsU : RegisterU(r[1], Phone, r[2], NickAnn)
LoginStepU == \E l \in LoginInputsU : Login(l[1], l[2])
ChangePasswordStepU == \E c \in PasswordInputsU : ChangePassword(c[1], c[2])
UpdateProfileStepU == UpdateProfileU(Some(NickZed), None)
DeleteCurrentUserStepU == \E wr \in WriteOutcomes : DeleteCurrentUserU(wr)

NextU ==
  \/ RegisterStepU \/ LoginStepU \/ Logout \/ ChangePasswordStepU
  \/ UpdateProfileStepU \/ DeleteCurrentUserStepU

SpecAuth == Init /\ [][NextU]_vars

---------------------------------------------------------------------------
(* C12 *)

\* C12: login succeeds only when a stored user has the given email and the hash
\* of the given password as its stored hash, and that user becomes the active
\* identity; a login that does not succeed leaves the active identity as it was,
\* also when another user was active
C12_LoginSetsIdentity ==
  [][last'.op = "login" =>
       /\ last'.ok =>
            \E i \in 1..Len(data.users) :
              /\ data.users[i].email = last'.arg.email
              /\ data.users[i].password_hash = Sha256(last'.arg.password)
              /\ current_user' = Some(User_from_dict(data.users[i]))
       /\ ~last'.ok => current_user' = current_user]_vars

\* C12 witness: a login with a wrong password for a stored user has failed while
\* another user is the active identity
C12_Witness ==
  /\ last.op = "login" /\ ~last.ok /\ last.exc = ""
  /\ IsSome(get_user_by_email(data, last.arg.email))
  /\ IsSome(current_user)
  /\ Val(current_user).email # last.arg.email

---------------------------------------------------------------------------
(* C13 *)

\* C13: after any sequence of register, login, logout, update_profile,
\* change_password and delete_current_user calls, no two users in the store
\* have the same email
C13_UniqueEmails ==
  \A i \in 1..Len(data.users) : \A j \in 1..Len(data.users) :
    data.users[i].email = data.users[j].email => i = j


\* C14: change_password succeeds only with an active identity whose stored
\* hash is the hash of the old password and with a new password of at least 6
\* characters; after a success login with the new password succeeds and login
\* with the (different) old password fails; after a failure the users
\* collection, and so every stored hash, is as before the call.
StoredHashIs(d, cu, password) ==
  /\ IsSome(cu)
  /\ IsSome(get_user_by_id(d, Val(cu).user_id))
  /\ Val(get_user_by_id(d, Val(cu).user_id)).password_hash = Sha256(password)
C14_ChangePassword ==
  [][last'.op = "change_password" =>
       /\ last'.ok =>
            /\ StoredHashIs(data, current_user, last'.arg.old)
            /\ Len(last'.arg.new) >= 6
            /\ login(data', disk', current_user', Val(current_user).email,
                     last'.arg.new).ok
            /\ last'.arg.old # last'.arg.new =>
                 ~login(data', disk', current_user', Val(current_user).email,
                        last'.arg.old).ok
       /\ ~last'.ok => data'.users = data.users]_vars


----------------------------------------------------------------------------
(* models/budget.py : a Budget object under its constructor and methods.   *)
(* last.arg.self is the object the last call was made on, after the call.  *)

BudgetOps ==
  {"Budget", "update_limit", "update_threshold", "activate", "deactivate",
   "is_exceeded", "is_threshold_reached"}
Receiver == IF last.op \in BudgetOps THEN last.arg.self ELSE None

BudgetCall(op, self, value, ok, exc, res) ==
  /\ last' = Call(op, [self |-> self, value |-> value], ok, exc, res)
  /\ UNCHANGED <<data, disk, current_user>>

\* Budget.__init__: _validate_threshold raises ValueError, the limit is taken as is
BudgetInit(limit_amount, threshold_percent) ==
  IF ThresholdOk(threshold_percent)
  THEN BudgetCall("Budget",
                  Some(BudgetNew(1, 1, "monthly", limit_amount, threshold_percent, None)),
                  [limit |-> limit_amount, threshold |-> threshold_percent], TRUE, "", <<>>)
  ELSE BudgetCall("Budget", None,
                  [limit |-> limit_amount, threshold |-> threshold_percent],
                  FALSE, "ValueError", <<>>)

UpdateLimit(new_limit) ==
  /\ IsSome(Receiver)
  /\ BudgetCall("update_limit", Some(update_limit(Val(Receiver), new_limit)),
                new_limit, TRUE, "", <<>>)

UpdateThreshold(new_threshold) ==
  /\ IsSome(Receiver)
  /\ IF ThresholdOk(new_threshold)
     THEN BudgetCall("update_threshold",
                     Some(update_threshold(Val(Receiver), new_threshold)),
                     new_threshold, TRUE, "", <<>>)
     ELSE BudgetCall("update_threshold", Receiver, new_threshold,
                     FALSE, "ValueError", <<>>)

Activate ==
  /\ IsSome(Receiver)
  /\ BudgetCall("activate", Some(activate(Val(Receiver))), <<>>, TRUE, "", <<>>)

Deactivate ==
  /\ IsSome(Receiver)
  /\ BudgetCall("deactivate", Some(deactivate(Val(Receiver))), <<>>, TRUE, "", <<>>)

IsExceeded(current_amount) ==
  /\ IsSome(Receiver)
  /\ BudgetCall("is_exceeded", Receiver, current_amount, TRUE, "",
                <<is_exceeded(Val(Receiver), current_amount)>>)

IsThresholdReached(current_amount) ==
  /\ IsSome(Receiver)
  /\ BudgetCall("is_threshold_reached", Receiver, current_amount, TRUE, "",
                <<is_threshold_reached(Val(Receiver), current_amount)>>)

\* 10^28 + 1, a limit of 29 digits, and the half of 10^28
LimitWide == Big(FALSE, <<1>> \o Zeros(27) \o <<1>>, 0)
HalfWide == Big(FALSE, <<5>>, 27)
LimitInputs == {Hundred, Dec(0, 0), Dec(-5, 0), LimitWide}
PercentInputs == {0, 50, 80, 100, 101, -1}
\* 79.99, 80, 100, 100.01, 0, 5 * 10^27
SpendInputs ==
  {Big(FALSE, <<7, 9, 9, 9>>, -2), Dec(80, 0), Hundred,
   Big(FALSE, <<1, 0, 0, 0, 1>>, -2), Dec(0, 0), HalfWide}

BudgetInitStep == \E l \in LimitInputs, t \in PercentInputs : BudgetInit(l, t)
UpdateLimitStep == \E l \in LimitInputs : UpdateLimit(l)
UpdateThresholdStep == \E t \in PercentInputs : UpdateThreshold(t)
IsExceededStep == \E s \in SpendInputs : IsExceeded(s)
IsThresholdReachedStep == \E s \in SpendInputs : IsThresholdReached(s)

NextBudget ==
  \/ BudgetInitStep \/ UpdateLimitStep \/ UpdateThresholdStep
  \/ Activate \/ Deactivate \/ IsExceededStep \/ IsThresholdReachedStep

SpecBudget == Init /\ [][NextBudget]_vars

\* the comparison of spend * 100 with limit * percent, nothing rounded
ExactThresholdCmp(b, spend) ==
  BigCmp(Big(BigOf(spend).neg, MulDigits(BigOf(spend).ds, 100), BigOf(spend).e),
         Big(BigOf(b.limit_amount).neg,
             MulDigits(BigOf(b.limit_amount).ds, b.threshold_percent),
             BigOf(b.limit_amount).e))

\* C15: is_exceeded(spend) is true exactly when spend > limit, and
\* is_threshold_reached(spend) exactly when spend >= limit * percent / 100,
\* for every budget and every spend amount.
C15_BudgetBoundaries ==
  /\ last.op = "is_exceeded" =>
       (last.res[1] <=>
          BigCmp(BigOf(last.arg.value), BigOf(Val(last.arg.self).limit_amount)) = 1)
  /\ last.op = "is_threshold_reached" =>
       (last.res[1] <=> ExactThresholdCmp(Val(last.arg.self), last.arg.value) >= 0)


\* C17: every Budget object has limit_amount > 0 and 0 <= threshold_percent
\* <= 100 after construction and after every method call; a constructor or
\* update call with a value outside these ranges raises, and a raising update
\* leaves the object as it was.
LimitPositive(limit_amount) == BigCmp(BigOf(limit_amount), BigOf(Dec(0, 0))) = 1
BudgetInRange(b) == LimitPositive(b.limit_amount) /\ ThresholdOk(b.threshold_percent)
C17_BudgetRanges ==
  [][last'.op \in BudgetOps =>
       /\ IsSome(last'.arg.self) => BudgetInRange(Val(last'.arg.self))
       /\ last'.op = "Budget" =>
            (last'.exc # "" <=> ~(/\ LimitPositive(last'.arg.value.limit)
                                  /\ ThresholdOk(last'.arg.value.threshold)))
       /\ last'.op = "update_limit" =>
            (last'.exc # "" <=> ~LimitPositive(last'.arg.value))
       /\ last'.op = "update_threshold" =>
            (last'.exc # "" <=> ~ThresholdOk(last'.arg.value))
       /\ last'.op \in {"update_limit", "update_threshold"} /\ last'.exc # "" =>
            last'.arg.self = Receiver]_vars


\* C18: after any sequence of application-layer calls every entry held in the
\* store has a title that is non-empty after trimming, an amount above zero
\* and a non-empty currency, and is read back by get_entry_by_id.
C18_StoredEntriesValid ==
  \A i \in 1..Len(data.entries) :
    /\ EntryRequire(data.entries[i].title, DecFromStr(data.entries[i].amount),
                    data.entries[i].currency)
    /\ get_entry_by_id(data, data.entries[i].entry_id).exc = ""


----------------------------------------------------------------------------
(* datetime as a calendar: the instant t of a timestamp counts ticks from   *)
(* 2025-01-01 00:00:00, TicksPerDay ticks a day; the years are not leap     *)
(* years. Tick 0 of a day is time.min, the last tick is time.max, the tick  *)
(* before it is 23:59:59 (no microseconds).                                 *)

TicksPerDay == 4
TimeMin == 0
LastSecond == TicksPerDay - 2
TimeMax == TicksPerDay - 1
EpochYear == 2025
\* date(2025, 1, 1).weekday()
EpochWeekday == 2
DaysPerYear == 365
MonthDays == <<31, 28, 31, 30, 31, 30, 31, 31, 30, 31, 30, 31>>

Instant(day, tod) == day * TicksPerDay + tod
\* datetime.date(): the day, counted from the epoch
DateOf(t) == t \div TicksPerDay
YearOf(day) == EpochYear + (day \div DaysPerYear)
RECURSIVE MonthFrom(_, _)
MonthFrom(doy, month) ==
  IF doy < MonthDays[month] THEN month ELSE MonthFrom(doy - MonthDays[month], month + 1)
MonthOf(day) == MonthFrom(day % DaysPerYear, 1)
RECURSIVE DaysBefore(_)
DaysBefore(month) == IF month = 1 THEN 0 ELSE DaysBefore(month - 1) + MonthDays[month - 1]
\* date(year, month, 1)
FirstOfMonth(year, month) == (year - EpochYear) * DaysPerYear + DaysBefore(month)
Weekday(day) == (day + EpochWeekday) % 7

----------------------------------------------------------------------------
(* services/stat_engine.py *)

\* the sum of Decimal amounts, in tenths; float() of a sum keeps its value
RECURSIVE SumTenths(_)
SumTenths(entries) ==
  IF entries = <<>> THEN 0 ELSE DecScaled(entries[1].amount) + SumTenths(Tail(entries))
Float(tenths) == [kind |-> "float", tenths |-> tenths]

OfType(entries, type) == SelectSeq(entries, LAMBDA e : e.category.type = type)
OnDay(entries, day) == SelectSeq(entries, LAMBDA e : DateOf(e.timestamp.t) = day)

StatOutcome(exc, res) == [exc |-> exc, res |-> res]

\* mutant: the end of the range is used as given
DayEndAsGiven(dt) == dt

\* datetime.combine(d.date(), time.min / time.max, tzinfo=d.tzinfo)
DayStart(dt) == Dt(Instant(DateOf(dt.t), TimeMin), dt.aware)
DayEnd(dt) == Dt(Instant(DateOf(dt.t), TimeMax), dt.aware)

\* one element of the result list; an unknown category type is ignored
DailyRow(entries, day) ==
  LET income  == SumTenths(OfType(OnDay(entries, day), "income"))
      expense == SumTenths(OfType(OnDay(entries, day), "expense"))
  IN [date |-> day, income |-> Float(income), expense |-> Float(expense),
      balance |-> Float(income - expense)]

get_daily_statistics(d, user_id, start_date, end_date) ==
  IF ~IsSome(start_date) \/ ~IsSome(end_date) THEN StatOutcome("ValueError", <<>>)
  ELSE IF DtAware(Val(start_date)) # DtAware(Val(end_date)) THEN StatOutcome("TypeError", <<>>)
  ELSE IF Val(start_date).t > Val(end_date).t THEN StatOutcome("ValueError", <<>>)
  ELSE LET start_dt == DayStart(Val(start_date))
           end_dt   == DayEnd(Val(end_date))
           q == query_entries(d, QueryParams(Some(user_id), None, None, Some(start_dt),
                                             Some(end_dt), None, None, None))
           first == DateOf(start_dt.t)
       IN IF q.exc # "" THEN StatOutcome(q.exc, <<>>)
          ELSE StatOutcome("", [i \in 1..(DateOf(end_dt.t) - first + 1) |->
                                  DailyRow(q.res, first + i - 1)])

GetDailyStatistics(user_id, start_date, end_date) ==
  LET o == get_daily_statistics(data, user_id, start_date, end_date)
  IN /\ last' = Call("get_daily_statistics",
                     [user_id |-> user_id, start_date |-> start_date,
                      end_date |-> end_date], o.exc = "", o.exc, o.res)
     /\ UNCHANGED <<data, disk, current_user>>

----------------------------------------------------------------------------
(* Daily specification: entries of three days around 2025-01-02, saved and  *)
(* then summed per day; the file is writable.                               *)

MaxStatEntries == 2
SalaryCategory == Category_from_dict(DefaultCategories[10])
At(day, tod) == Dt(Instant(day, tod), FALSE)
AtAware(day, tod) == Dt(Instant(day, tod), TRUE)

EntryShapesY ==
  {<<1, FoodCategory, Ten, At(1, TimeMin)>>,
   <<1, FoodCategory, Dec(25, -1), At(1, TimeMax)>>,
   <<1, SalaryCategory, Dec(20, 0), At(1, 1)>>,
   <<1, FoodCategory, Ten, At(2, 1)>>,
   <<1, FoodCategory, Ten, At(0, TimeMax)>>,
   <<1, FoodCategory, Ten, AtAware(1, 1)>>,
   <<2, FoodCategory, Ten, At(1, 1)>>}
EntryInputsY ==
  {EntryNew(id, s[1], s[2], TitleLunch, s[3], "CNY", None, s[4]) :
     id \in 1..MaxStatEntries, s \in EntryShapesY}
RangeInputsY ==
  {<<At(1, 1), At(1, 1)>>, <<At(1, 1), At(2, TimeMin)>>, <<At(0, 1), At(2, 1)>>,
   <<At(2, 1), At(1, 1)>>, <<AtAware(1, 1), AtAware(1, LastSecond)>>,
   <<At(1, 1), AtAware(2, 1)>>}

SaveEntryY == \E e \in EntryInputsY : DbSaveEntry(e, "ok")
GetDailyStatisticsY ==
  \E r \in RangeInputsY : GetDailyStatistics(1, Some(r[1]), Some(r[2]))

NextY == SaveEntryY \/ GetDailyStatisticsY
SpecDaily == Init /\ [][NextY]_vars


\* the stored entries of a user, of one category type, timestamped on a day
StoredOnDay(user_id, type, day) ==
  SelectSeq(data.entries,
            LAMBDA ed : /\ ed.user_id = user_id
                        /\ ed.category.type = type
                        /\ DateOf(ed.timestamp.t) = day)
SameAwareness(entries, aware) ==
  SelectSeq(entries, LAMBDA ed : ed.timestamp.aware = aware)
StoredTenths(entries) ==
  SumTenths([i \in 1..Len(entries) |-> [amount |-> DecFromStr(entries[i].amount)]])

DailyCallInOrder ==
  /\ last.op = "get_daily_statistics"
  /\ DtAware(Val(last.arg.start_date)) = DtAware(Val(last.arg.end_date))
  /\ Val(last.arg.start_date).t <= Val(last.arg.end_date).t
DailyFirstDay == DateOf(Val(last.arg.start_date).t)
DailyLastDay == DateOf(Val(last.arg.end_date).t)

\* the user's stored entries of a type and a day that the call sums: all of
\* them, or those with the timezone-awareness of start and end
DailySummed(type, day, same_awareness) ==
  IF same_awareness
  THEN SameAwareness(StoredOnDay(last.arg.user_id, type, day),
                     DtAware(Val(last.arg.start_date)))
  ELSE StoredOnDay(last.arg.user_id, type, day)

\* the rows are the days of the range in ascending order, each with the sums
\* of the entries of its day and their difference
DailyRowsAre(same_awareness) ==
  /\ last.exc = ""
  /\ Len(last.res) = DailyLastDay - DailyFirstDay + 1
  /\ \A i \in 1..Len(last.res) :
       LET day == DailyFirstDay + i - 1
           income == StoredTenths(DailySummed("income", day, same_awareness))
           expense == StoredTenths(DailySummed("expense", day, same_awareness))
       IN /\ last.res[i].date = day
          /\ last.res[i].income = Float(income)
          /\ last.res[i].expense = Float(expense)
          /\ last.res[i].balance = Float(income - expense)

InMonth(entries, month) ==
  SelectSeq(entries, LAMBDA e : MonthOf(DateOf(e.timestamp.t)) = month)
MonthlyRow(entries, month) ==
  LET income  == SumTenths(OfType(InMonth(entries, month), "income"))
      expense == SumTenths(SelectSeq(InMonth(entries, month),
                                     LAMBDA e : e.category.type # "income"))
  IN [month |-> month, income |-> Float(income), expense |-> Float(expense),
      balance |-> Float(income - expense)]

\* datetime(year, 1, 1) and datetime(year, 12, 31, 23, 59, 59), both naive
YearStart(year) == Dt(Instant(FirstOfMonth(year, 1), TimeMin), FALSE)
YearEnd(year) == Dt(Instant(FirstOfMonth(year + 1, 1) - 1, LastSecond), FALSE)

get_monthly_statistics(d, user_id, year) ==
  LET q == query_entries(d, QueryParams(Some(user_id), None, None, Some(YearStart(year)),
                                        Some(YearEnd(year)), None, None, None))
  IN IF q.exc # "" THEN StatOutcome(q.exc, <<>>)
     ELSE StatOutcome("", [month \in 1..12 |-> MonthlyRow(q.res, month)])

GetMonthlyStatistics(user_id, year) ==
  LET o == get_monthly_statistics(data, user_id, year)
  IN /\ last' = Call("get_monthly_statistics", [user_id |-> user_id, year |-> year],
                     o.exc = "", o.exc, o.res)
     /\ UNCHANGED <<data, disk, current_user>>

----------------------------------------------------------------------------
(* Monthly specification: entries of 2025 and of the years around it        *)

\* 2025-03-01, 2025-12-31 and 2026-01-01 as days from the epoch
DayMarch == FirstOfMonth(2025, 3)
DayYearEnd == FirstOfMonth(2026, 1) - 1
DayNextYear == FirstOfMonth(2026, 1)

EntryShapesM ==
  {<<1, FoodCategory, Ten, At(DayMarch, 1)>>,
   <<1, SalaryCategory, Dec(20, 0), At(DayMarch, TimeMax)>>,
   <<1, FoodCategory, Dec(25, -1), At(0, TimeMin)>>,
   <<1, FoodCategory, Ten, At(DayYearEnd, LastSecond)>>,
   <<1, FoodCategory, Ten, At(DayYearEnd, TimeMax)>>,
   <<1, FoodCategory, Ten, At(DayNextYear, TimeMin)>>,
   <<2, FoodCategory, Ten, At(DayMarch, 1)>>}
EntryInputsM ==
  {EntryNew(id, s[1], s[2], TitleLunch, s[3], "CNY", None, s[4]) :
     id \in 1..MaxStatEntries, s \in EntryShapesM}
YearInputs == {2025, 2026}

SaveEntryM == \E e \in EntryInputsM : DbSaveEntry(e, "ok")
GetMonthlyStatisticsM == \E y \in YearInputs : GetMonthlyStatistics(1, y)

NextM == SaveEntryM \/ GetMonthlyStatisticsM
SpecMonthly == Init /\ [][NextM]_vars

StoredInMonth(user_id, type, year, month) ==
  SelectSeq(data.entries,
            LAMBDA ed : /\ ed.user_id = user_id
                        /\ ed.category.type = type
                        /\ YearOf(DateOf(ed.timestamp.t)) = year
                        /\ MonthOf(DateOf(ed.timestamp.t)) = month)

\* C20: get_monthly_statistics(user, year) returns 12 rows, months 1 to 12 in
\* ascending order, each with the sums of the user's income and expense
\* entries timestamped in that month of that year and their difference.
C20_MonthlyRows ==
  last.op = "get_monthly_statistics" =>
    /\ last.exc = ""
    /\ Len(last.res) = 12
    /\ \A month \in 1..12 :
         LET income == StoredTenths(StoredInMonth(last.arg.user_id, "income",
                                                   last.arg.year, month))
             expense == StoredTenths(StoredInMonth(last.arg.user_id, "expense",
                                                    last.arg.year, month))
         IN /\ last.res[month].month = month
            /\ last.res[month].income = Float(income)
            /\ last.res[month].expense = Float(expense)
            /\ last.res[month].balance = Float(income - expense)


----------------------------------------------------------------------------
(* services/stat_engine.py : check_budget_status *)

\* _get_period_range(period) at the instant now = datetime.now(), naive:
\* every window ends at 23:59:59
PeriodStartDay(period, day) ==
  CASE period = "daily"   -> day
    [] period = "weekly"  -> day - Weekday(day)
    [] period = "monthly" -> FirstOfMonth(YearOf(day), MonthOf(day))
    [] OTHER              -> FirstOfMonth(YearOf(day), 1)
PeriodEndDay(period, day) ==
  CASE period = "daily"   -> day
    [] period = "weekly"  -> (day - Weekday(day)) + 6
    [] period = "monthly" ->
         (IF MonthOf(day) = 12 THEN FirstOfMonth(YearOf(day) + 1, 1)
          ELSE FirstOfMonth(YearOf(day), MonthOf(day) + 1)) - 1
    [] OTHER              -> FirstOfMonth(YearOf(day), 12) + 30
get_period_range(period, now) ==
  [start |-> Dt(Instant(PeriodStartDay(period, DateOf(now.t)), TimeMin), FALSE),
   end   |-> Dt(Instant(PeriodEndDay(period, DateOf(now.t)), LastSecond), FALSE)]

\* calculate_total_by_type(user_id, EXPENSE, start, end)
calculate_total_by_type(d, user_id, type, start_date, end_date) ==
  LET q == query_entries(d, QueryParams(Some(user_id), None, None, start_date, end_date,
                                        None, None, None))
  IN IF q.exc # "" THEN StatOutcome(q.exc, 0)
     ELSE StatOutcome("", SumTenths(OfType(q.res, type)))

\* mutant: a category budget counts the expenses of every category
current_amount_AnyCategory(d, user_id, b, now) ==
  LET w == get_period_range(b.period, now)
  IN calculate_total_by_type(d, user_id, "expense", Some(w.start), Some(w.end))

\* the spend of one budget: all expenses of the window, replaced by those of
\* the budget's category when it has one
current_amount(d, user_id, b, now) ==
  LET w == get_period_range(b.period, now)
      total == calculate_total_by_type(d, user_id, "expense", Some(w.start), Some(w.end))
      q == query_entries(d, QueryParams(Some(user_id), b.category_id, None, Some(w.start),
                                        Some(w.end), None, None, None))
  IN IF total.exc # "" THEN total
     ELSE IF ~IsSome(b.category_id) THEN total
     ELSE IF q.exc # "" THEN StatOutcome(q.exc, 0)
     ELSE StatOutcome("", SumTenths(OfType(q.res, "expense")))

BudgetRow(b, tenths) ==
  [budget_id |-> b.budget_id, period |-> b.period,
   limit_amount |-> Float(DecScaled(b.limit_amount)),
   current_amount |-> Float(tenths),
   remaining |-> Float(DecScaled(b.limit_amount) - tenths),
   is_exceeded |-> is_exceeded(b, Dec(tenths, -1)),
   is_threshold_reached |-> is_threshold_reached(b, Dec(tenths, -1))]

check_budget_status(d, user_id, now) ==
  LET active == SelectSeq(get_budgets_by_user(d, user_id), LAMBDA b : b.is_active)
      spent == [i \in 1..Len(active) |-> current_amount(d, user_id, active[i], now)]
  IN IF \E i \in 1..Len(active) : spent[i].exc # ""
     THEN StatOutcome(spent[CHOOSE i \in 1..Len(active) : spent[i].exc # ""].exc, <<>>)
     ELSE StatOutcome("", [i \in 1..Len(active) |-> BudgetRow(active[i], spent[i].res)])

CheckBudgetStatus(user_id, now) ==
  LET o == check_budget_status(data, user_id, now)
  IN /\ last' = Call("check_budget_status", [user_id |-> user_id, now |-> now],
                     o.exc = "", o.exc, o.res)
     /\ UNCHANGED <<data, disk, current_user>>

----------------------------------------------------------------------------
(* Budget status specification: expenses around Wednesday 2025-12-31, the   *)
(* last day of a month and of a year, under budgets of the four periods     *)

DayLast == FirstOfMonth(2026, 1) - 1
TransportCategory == Category_from_dict(DefaultCategories[3])

EntryInputsG ==
  {EntryNew(1, s[1], s[2], TitleLunch, Ten, "CNY", None, s[3]) :
     s \in {<<1, FoodCategory, At(DayLast, 1)>>,
            <<1, FoodCategory, At(DayLast, TimeMax)>>,
            <<1, SalaryCategory, At(DayLast, 1)>>,
            <<1, FoodCategory, AtAware(DayLast, 1)>>,
            <<1, FoodCategory, At(DayLast - 3, 1)>>}}
  \cup
  {EntryNew(2, s[1], s[2], TitleLunch, Dec(25, -1), "CNY", None, s[3]) :
     s \in {<<1, FoodCategory, At(DayLast - 2, TimeMin)>>,
            <<1, FoodCategory, At(DayLast + 1, 1)>>,
            <<1, TransportCategory, At(DayLast, 1)>>,
            <<2, FoodCategory, At(DayLast, 1)>>,
            <<1, FoodCategory, At(DayLast - 31, 1)>>}}
BudgetInputsG ==
  {BudgetNew(1, 1, "daily", Ten, 50, None),
   BudgetNew(1, 1, "monthly", Ten, 50, Some(FoodCategory.category_id)),
   deactivate(BudgetNew(1, 1, "yearly", Ten, 50, None)),
   BudgetNew(2, 1, "weekly", Ten, 50, Some(FoodCategory.category_id)),
   BudgetNew(2, 1, "yearly", Ten, 50, None),
   BudgetNew(2, 2, "monthly", Ten, 50, None)}
NowInputs == {At(DayLast, 1), At(DayLast + 1, 1)}

SaveEntryG == \E e \in EntryInputsG : DbSaveEntry(e, "ok")
SaveBudgetG == \E b \in BudgetInputsG : DbSaveBudget(b, "ok")
CheckBudgetStatusG == \E now \in NowInputs : CheckBudgetStatus(1, now)

NextG == SaveEntryG \/ SaveBudgetG \/ CheckBudgetStatusG
SpecStatus == Init /\ [][NextG]_vars


\* two days lie in the same period: the same day, the same Monday-to-Sunday
\* week, the same month of the same year, the same year
SamePeriod(period, day, today) ==
  CASE period = "daily"   -> day = today
    [] period = "weekly"  -> day - Weekday(day) = today - Weekday(today)
    [] period = "monthly" -> YearOf(day) = YearOf(today) /\ MonthOf(day) = MonthOf(today)
    [] OTHER              -> YearOf(day) = YearOf(today)

\* the period-range rule: the current period up to 23:59:59 of its last day
InCurrentWindow(period, t, now) ==
  /\ SamePeriod(period, DateOf(t), DateOf(now.t))
  /\ ~(/\ t > Instant(DateOf(t), LastSecond)
       /\ ~SamePeriod(period, DateOf(t) + 1, DateOf(now.t)))

\* the stored expense entries of the user that a budget counts: those in the
\* window, of the budget's category if it has one; naive ones only, or all
BudgetSummed(bd, naive_only) ==
  SelectSeq(data.entries,
            LAMBDA ed : /\ ed.user_id = last.arg.user_id
                        /\ ed.category.type = "expense"
                        /\ InCurrentWindow(bd.period, ed.timestamp.t, last.arg.now)
                        /\ IsSome(bd.category_id) =>
                             ed.category.category_id = Val(bd.category_id)
                        /\ naive_only => ~ed.timestamp.aware)

ActiveBudgetsOf(user_id) ==
  SelectSeq(data.budgets, LAMBDA bd : bd.user_id = user_id /\ bd.is_active)

BudgetRowsAre(naive_only) ==
  /\ last.exc = ""
  /\ Len(last.res) = Len(ActiveBudgetsOf(last.arg.user_id))
  /\ \A i \in 1..Len(last.res) :
       /\ last.res[i].budget_id = ActiveBudgetsOf(last.arg.user_id)[i].budget_id
       /\ last.res[i].current_amount =
            Float(StoredTenths(BudgetSummed(ActiveBudgetsOf(last.arg.user_id)[i],
                                            naive_only)))

\* C16 as stated: check_budget_status(user) returns one row for each active
\* budget of the user and none for an inactive one; a row's current_amount is
\* the sum of all the user's expense entries timestamped in the current window
\* of the budget's period, of the budget's category if it has one.
C16_BudgetRowsAllEntries == last.op = "check_budget_status" => BudgetRowsAre(FALSE)

\* C16 amended: the sum is over the entries with a naive timestamp.
C16_BudgetRows == last.op = "check_budget_status" => BudgetRowsAre(TRUE)

\* C16 witness: two active budgets, one with a category, and a stored expense
\* of the user that the category budget leaves out while the other counts it
C16_Witness ==
  /\ last.op = "check_budget_status"
  /\ Len(last.res) = 2
  /\ \E i, j \in 1..2 :
       /\ IsSome(ActiveBudgetsOf(last.arg.user_id)[i].category_id)
       /\ ~IsSome(ActiveBudgetsOf(last.arg.user_id)[j].category_id)
       /\ last.res[j].current_amount # Float(0)
       /\ \E k \in 1..Len(data.entries) :
            /\ data.entries[k].user_id = last.arg.user_id
            /\ data.entries[k].category.category_id = TransportCategory.category_id


----------------------------------------------------------------------------
\* C28: query_entries called with valid parameters never raises, whatever
\* entries were stored through save_entry, also when the store mixes
\* timezone-aware and naive timestamps and no date bound is given.
C28_ValidQueryNeverRaises == (IsQuery /\ ValidParams(last.arg)) => last.exc = ""


----------------------------------------------------------------------------
(* The models' mutators, and the serialization round trip of each entity    *)

\* Tag.rename strips the name (its contract refuses a blank one);
\* Tag.update_color assigns whatever it is given
Tag_rename(t, new_name) == [t EXCEPT !.name = Strip(new_name)]
Tag_update_color(t, new_color) == [t EXCEPT !.color = new_color]
\* category names are atoms here: a name is given without surrounding blanks
Category_rename(c, new_name) == [c EXCEPT !.name = new_name]
Entry_update_note(e, new_note) == [e EXCEPT !.note = new_note]
Entry_update_amount(e, new_amount) == [e EXCEPT !.amount = new_amount]
User_update_password(u, new_password) == [u EXCEPT !.password_hash = Sha256(new_password)]

\* to_dict, then from_dict (which may raise), then to_dict again
RoundTrip(kind, id, dict, ok, again) ==
  /\ last' = Call("round_trip", [kind |-> kind, id |-> id, dict |-> dict],
                  ok, IF ok THEN "" ELSE "ViolationError", again)
  /\ UNCHANGED <<data, disk, current_user>>

RoundTripUser(u) ==
  RoundTrip("user", u.user_id, User_to_dict(u), TRUE,
            <<User_to_dict(User_from_dict(User_to_dict(u)))>>)
RoundTripCategory(c) ==
  IF Category_from_dict_ok(Category_to_dict(c))
  THEN RoundTrip("category", c.category_id, Category_to_dict(c), TRUE,
                 <<Category_to_dict(Category_from_dict(Category_to_dict(c)))>>)
  ELSE RoundTrip("category", c.category_id, Category_to_dict(c), FALSE, <<>>)
RoundTripTag(t) ==
  IF Tag_from_dict_ok(Tag_to_dict(t))
  THEN RoundTrip("tag", t.tag_id, Tag_to_dict(t), TRUE,
                 <<Tag_to_dict(Tag_from_dict(Tag_to_dict(t)))>>)
  ELSE RoundTrip("tag", t.tag_id, Tag_to_dict(t), FALSE, <<>>)
RoundTripEntry(e) ==
  IF Entry_from_dict_ok(Entry_to_dict(e))
  THEN RoundTrip("entry", e.entry_id, Entry_to_dict(e), TRUE,
                 <<Entry_to_dict(Entry_from_dict(Entry_to_dict(e)))>>)
  ELSE RoundTrip("entry", e.entry_id, Entry_to_dict(e), FALSE, <<>>)
RoundTripBudget(b) ==
  IF Budget_from_dict_ok(Budget_to_dict(b))
  THEN RoundTrip("budget", b.budget_id, Budget_to_dict(b), TRUE,
                 <<Budget_to_dict(Budget_from_dict(Budget_to_dict(b)))>>)
  ELSE RoundTrip("budget", b.budget_id, Budget_to_dict(b), FALSE, <<>>)

\* objects built by a constructor, and by one mutator call on such an object
ColorRed == "#ff0000"
TagsBuilt ==
  {TagNew(n, c, id) : n \in {TagName, <<" ", "a">>}, c \in {None, Some(ColorRed)},
                      id \in 1..MaxTags}
TagsR ==
  TagsBuilt
  \cup {Tag_update_color(t, c) : t \in TagsBuilt, c \in {"", "#00ff00"}}
  \cup {Tag_rename(t, <<"b", " ">>) : t \in TagsBuilt}
CategoriesBuilt ==
  {CategoryNew(n, ty, id) : n \in {"Pets", ""}, ty \in {"income", "expense"}, id \in 1..2}
CategoriesR == CategoriesBuilt \cup {Category_rename(c, "Zoo") : c \in CategoriesBuilt}
EntriesBuilt ==
  {EntryNew(1, 1, FoodCategory, TitleLunch, a, "CNY", n, ts) :
     a \in {Ten, Dec(100, -1)}, n \in {None, Some(<<"n">>)},
     ts \in {Noon, Dt(1, TRUE)}}
EntriesR ==
  EntriesBuilt
  \cup {Entry_update_note(e, <<>>) : e \in EntriesBuilt}
  \cup {Entry_update_amount(e, Dec(25, -1)) : e \in EntriesBuilt}
  \cup {Entry_add_tag(e, TagNew(TagName, Some(ColorRed), 1)) : e \in EntriesBuilt}
UsersBuilt == {UserAnn, UserBob}
UsersR ==
  UsersBuilt
  \cup {UpdatedProfile(u, Some(NickZed), None) : u \in UsersBuilt}
  \cup {User_update_password(u, "secret3") : u \in UsersBuilt}
BudgetsBuilt ==
  {BudgetNew(1, 1, p, l, th, c) :
     p \in {"daily", "weekly", "monthly", "yearly"}, l \in {Hundred, Dec(5, -1)},
     th \in {0, 80}, c \in {None, Some(DefaultCategoryId(1))}}
BudgetsR ==
  BudgetsBuilt
  \cup {deactivate(b) : b \in BudgetsBuilt}
  \cup {update_threshold(b, 100) : b \in BudgetsBuilt}

RoundTripUserStep == \E u \in UsersR : RoundTripUser(u)
RoundTripCategoryStep == \E c \in CategoriesR : RoundTripCategory(c)
RoundTripTagStep == \E t \in TagsR : RoundTripTag(t)
RoundTripEntryStep == \E e \in EntriesR : RoundTripEntry(e)
RoundTripBudgetStep == \E b \in BudgetsR : RoundTripBudget(b)

NextR ==
  \/ RoundTripUserStep \/ RoundTripCategoryStep \/ RoundTripTagStep
  \/ RoundTripEntryStep \/ RoundTripBudgetStep
SpecRound == Init /\ [][NextR]_vars

IdField(kind) ==
  CASE kind = "user" -> UserKey [] kind = "category" -> CategoryKey
    [] kind = "tag" -> TagKey [] kind = "entry" -> EntryKey [] OTHER -> BudgetKey

\* C21: for every entity kind and every entity x obtainable through its
\* constructor and mutators, to_dict(from_dict(to_dict(x))) = to_dict(x), and
\* from_dict(to_dict(x)) has the identifier of x.
C21_RoundTrip ==
  last.op = "round_trip" =>
    /\ last.exc = ""
    /\ last.res[1] = last.arg.dict
    /\ last.res[1][IdField(last.arg.kind)] = last.arg.id

----------------------------------------------------------------------------
(* Database.__init__ : loading the file, seeding the default categories *)

AbsentFile == [kind |-> "absent", data |-> EmptyData]

\* _load_from_file: a missing file and a file json.load cannot parse both
\* leave the empty dataset of __init__ in place
load_from_file(dk) == IF dk.kind = "data" THEN dk.data ELSE EmptyData

\* _init_default_categories: seeds and writes only when no category is held;
\* the write is not guarded
init_default_categories(d, dk, wr) ==
  IF d.categories = <<>>
  THEN UnguardedWrite([d EXCEPT !.categories = DefaultCategories], dk, wr)
  ELSE Outcome(d, dk, TRUE, "")

Database_init(dk, wr) == init_default_categories(load_from_file(dk), dk, wr)

----------------------------------------------------------------------------
(* Dirty-data specification: a store opened on a file that holds records    *)
(* no save_entry would have written, then queried and summed per day.       *)

\* what json.load returns for a stored "timestamp" / "amount"
TsMissing == [kind |-> "missing", t |-> 0, aware |-> FALSE]
TsNoDate == [kind |-> "text", t |-> 0, aware |-> FALSE]
TsNumber == [kind |-> "num", t |-> 0, aware |-> FALSE]
AmountMissing == [kind |-> "missing", c |-> 0, e |-> 0]
AmountNoNumber == [kind |-> "text", c |-> 0, e |-> 0]

CleanRecord(id) ==
  Entry_to_dict(EntryNew(id, 1, FoodCategory, TitleLunch, Ten, "CNY", None, At(1, 1)))

RecordShapes(id) ==
  {CleanRecord(id),
   [CleanRecord(id) EXCEPT !.timestamp = TsMissing],
   [CleanRecord(id) EXCEPT !.timestamp = TsNoDate],
   [CleanRecord(id) EXCEPT !.timestamp = TsNumber],
   [CleanRecord(id) EXCEPT !.amount = AmountMissing],
   [CleanRecord(id) EXCEPT !.amount = AmountNoNumber],
   [CleanRecord(id) EXCEPT !.timestamp = DtIsoformat(AtAware(1, 1))],
   [CleanRecord(id) EXCEPT !.category.type = "transfer"]}

FilesJ ==
  {FileOf([InitData EXCEPT !.entries = <<>>])}
  \cup {FileOf([InitData EXCEPT !.entries = <<r>>]) : r \in RecordShapes(1)}
  \cup {FileOf([InitData EXCEPT !.entries = <<r1, r2>>]) :
          r1 \in RecordShapes(1), r2 \in RecordShapes(2)}

InitJ ==
  /\ disk \in FilesJ
  /\ data = Database_init(disk, "ok").data
  /\ current_user = None
  /\ last = NoCall

QueryInputsJ ==
  {QueryParams(u, None, None, sd, ed, ma, None, None) :
     u \in {Some(1), Some(2)},
     sd \in {None, Some(At(0, 1)), Some(AtAware(0, 1))},
     ed \in {None, Some(At(2, 1))},
     ma \in {None, Some(Dec(5, 0))}}

SaveEntryJ ==
  \E e \in {EntryNew(3, 1, SalaryCategory, TitleLunch, Dec(20, 0), "CNY", None, At(1, 1))} :
    DbSaveEntry(e, "ok")
QueryJ == \E p \in QueryInputsJ : DbQueryEntries(p)
GetDailyStatisticsJ ==
  \E r \in {<<At(1, 1), At(1, 1)>>, <<At(0, 1), At(2, 1)>>, <<AtAware(1, 1), AtAware(1, 1)>>} :
    GetDailyStatistics(1, Some(r[1]), Some(r[2]))

NextJ == SaveEntryJ \/ QueryJ \/ GetDailyStatisticsJ
SpecDirty == InitJ /\ [][NextJ]_vars

\* the defects the scan is meant to tolerate
TimestampDefect(ed) == ed.timestamp.kind # "iso"
AmountDefect(ed) == ed.amount.kind # "dec"
HasDateBound(p) == IsSome(p.start_date) \/ IsSome(p.end_date)
AwarenessDefect(ed, p) ==
  /\ ~TimestampDefect(ed)
  /\ \/ IsSome(p.start_date) /\ DtAware(Val(p.start_date)) # ed.timestamp.aware
     \/ IsSome(p.end_date) /\ DtAware(Val(p.end_date)) # ed.timestamp.aware
Tolerated(ed, p) == TimestampDefect(ed) \/ AmountDefect(ed) \/ AwarenessDefect(ed, p)

\* every stored record is either sound or has one of the tolerated defects
OnlyToleratedDefects(p) ==
  \A i \in 1..Len(data.entries) :
    /\ Category_from_dict_ok(data.entries[i].category)
    /\ HasDateBound(p) \/ TimestampDefect(data.entries[i])
         \/ ~data.entries[i].timestamp.aware

ReturnedIds == {last.res[i].entry_id : i \in 1..Len(last.res)}
ExpectedIds(p) ==
  {data.entries[i].entry_id : i \in
     {j \in 1..Len(data.entries) :
        ~Tolerated(data.entries[j], p) /\ Passes(data.entries[j], p)}}

\* C22: a query with valid parameters over a store whose records are sound or
\* lack a timestamp or an amount, hold one that cannot be parsed, or disagree
\* in awareness with a given date bound never raises, and returns exactly the
\* sound records that match
C22_DirtyRecordsSkipped ==
  (IsQuery /\ ValidParams(last.arg) /\ OnlyToleratedDefects(last.arg)) =>
    /\ last.exc = ""
    /\ ReturnedIds = ExpectedIds(last.arg)

StatRecordsClean ==
  \A i \in 1..Len(data.entries) :
    ~TimestampDefect(data.entries[i]) /\ ~AmountDefect(data.entries[i])
StoredWithUnknownType ==
  \E i \in 1..Len(data.entries) : ~Category_from_dict_ok(data.entries[i].category)
KnownTypeRecords ==
  [data EXCEPT !.entries = SelectSeq(@, LAMBDA ed : Category_from_dict_ok(ed.category))]

\* C23: get_daily_statistics over a store holding a record whose category
\* type is neither income nor expense does not raise and reports the rows
\* the other records alone would give
C23_UnknownTypeIgnored ==
  (last.op = "get_daily_statistics" /\ StatRecordsClean /\ StoredWithUnknownType
     /\ DailyCallInOrder) =>
    /\ last.exc = ""
    /\ last.res = get_daily_statistics(KnownTypeRecords, last.arg.user_id,
                                       last.arg.start_date, last.arg.end_date).res

----------------------------------------------------------------------------
(* Reopen specification: records saved and categories deleted against a    *)
(* file that may refuse or truncate a write, and a new store constructed   *)
(* on the same file.                                                       *)

\* Database(db_path) on the file as it is; a constructor that raises leaves
\* the caller with the store it had
DbOpen(wr) ==
  LET o == Database_init(disk, wr)
  IN /\ data' = IF o.exc = "" THEN o.data ELSE data
     /\ disk' = o.disk
     /\ last' = Call("open", disk, o.exc = "", o.exc, <<>>)
     /\ UNCHANGED current_user

\* the category the caller deletes next: the oldest one still stored
NextCategoryId ==
  IF data.categories = <<>> THEN DefaultCategoryId(1)
  ELSE Head(data.categories).category_id

SaveUserO == \E wr \in WriteOutcomes : DbSaveUser(UserAnn, wr)
SaveTagO == \E wr \in WriteOutcomes : DbSaveTag(TagTrip, wr)
DeleteCategoryO == \E wr \in WriteOutcomes : DbDeleteCategory(NextCategoryId, wr)
ClearAllDataO == \E wr1 \in WriteOutcomes, wr2 \in WriteOutcomes : DbClearAllData(wr1, wr2)
OpenO == \E wr \in WriteOutcomes : DbOpen(wr)

NextO == SaveUserO \/ SaveTagO \/ DeleteCategoryO \/ ClearAllDataO \/ OpenO
SpecOpen == Init /\ [][NextO]_vars

WritingOps == {"save_user", "save_tag", "delete_category", "clear_all_data"}
WriteSucceeded == last.op \in WritingOps /\ last.ok

\* what a store constructed now on the file would hold
Reopened == Database_init(disk, "ok").data

\* C24 as stated: after a mutating operation whose write succeeded the file
\* holds the whole in-memory dataset and a store constructed on it holds the
\* same five collections
C24_ReopenSameData ==
  WriteSucceeded => (disk = FileOf(data) /\ Reopened = data)

\* C24: after a mutating operation whose write succeeded the file holds the
\* whole in-memory dataset; a store constructed on it holds the same five
\* collections when a category is stored, and the same users, entries, tags
\* and budgets with the default categories when none is
C24_ReopenSameOrSeeded ==
  WriteSucceeded =>
    /\ disk = FileOf(data)
    /\ data.categories # <<>> => Reopened = data
    /\ data.categories = <<>> => Reopened = [data EXCEPT !.categories = DefaultCategories]

\* C24: the last category has been deleted and the write succeeded
C24_Witness ==
  last.op = "delete_category" /\ last.ok /\ data.categories = <<>> /\ data.users # <<>>

Loaded == load_from_file(last.arg)
CountOfType(cats, type) == Cardinality({i \in 1..Len(cats) : cats[i].type = type})

\* construction that returned: seeded and written iff nothing was loaded
SeededIffEmpty ==
  (last.op = "open" /\ last.exc = "") =>
    /\ Loaded.categories = <<>> =>
         /\ data = [Loaded EXCEPT !.categories = DefaultCategories]
         /\ disk = FileOf(data)
    /\ Loaded.categories # <<>> => (data = Loaded /\ disk = last.arg)

ClearedToDefaults ==
  last.op = "clear_all_data" =>
    /\ data.users = <<>> /\ data.entries = <<>> /\ data.tags = <<>> /\ data.budgets = <<>>
    /\ data.categories = DefaultCategories

\* C25: constructing the store seeds the 9 expense and 5 income default
\* categories and writes the file iff no category was loaded, and changes
\* nothing otherwise; clear_all_data leaves only the default categories
C25_DefaultCategories ==
  /\ CountOfType(DefaultCategories, "expense") = 9
  /\ CountOfType(DefaultCategories, "income") = 5
  /\ SeededIffEmpty
  /\ ClearedToDefaults

\* C26: a store constructed on a file that cannot be parsed holds no user,
\* entry, tag or budget, and the file is left as it was
C26_UnparsableFileKept ==
  (last.op = "open" /\ last.arg = CorruptFile /\ last.exc = "") =>
    /\ data.users = <<>> /\ data.entries = <<>> /\ data.tags = <<>> /\ data.budgets = <<>>
    /\ disk = CorruptFile

----------------------------------------------------------------------------
(* Category specification: entries saved under a default and a custom      *)
(* category, the categories renamed, saved and deleted, the entries read.  *)

FoodRenamed == Category_rename(FoodCategory, "waimai")
PetsRenamed == Category_rename(PetsCategory, "Cats")
CategoryInputsC == {PetsCategory, PetsRenamed, FoodRenamed}

EntryInputsC ==
  {EntryNew(id, 1, c, TitleLunch, Ten, "CNY", None, At(1, 1)) :
     id \in 1..2, c \in {FoodCategory, PetsCategory}}
QueryInputsC ==
  {QueryParams(Some(1), c, None, None, None, None, None, None) :
     c \in {None, Some(PetsCategory.category_id)}}

SaveEntryC == \E e \in EntryInputsC : DbSaveEntry(e, "ok")
SaveCategoryC == \E c \in CategoryInputsC, wr \in WriteOutcomes : DbSaveCategory(c, wr)
DeleteCategoryC ==
  \E id \in {PetsCategory.category_id, FoodCategory.category_id}, wr \in WriteOutcomes :
    DbDeleteCategory(id, wr)
QueryC == \E p \in QueryInputsC : DbQueryEntries(p)
GetDailyStatisticsC == GetDailyStatistics(1, Some(At(1, 1)), Some(At(1, 1)))

NextC == SaveEntryC \/ SaveCategoryC \/ DeleteCategoryC \/ QueryC \/ GetDailyStatisticsC
SpecCategory == Init /\ [][NextC]_vars

CategoryStep == last'.op \in {"save_category", "delete_category"}

\* C27: a step of save_category or delete_category leaves every stored entry
\* record as it was, and query_entries and the daily statistics report after
\* the step what they reported before it
C27_EntriesKeepSnapshot ==
  [][CategoryStep =>
       /\ data'.entries = data.entries
       /\ \A p \in QueryInputsC : query_entries(data', p) = query_entries(data, p)
       /\ get_daily_statistics(data', 1, Some(At(1, 1)), Some(At(1, 1)))
            = get_daily_statistics(data, 1, Some(At(1, 1)), Some(At(1, 1)))]_vars

\* C27: a category has been saved under a new name while a stored entry
\* created from it still carries the old name
C27_Witness ==
  /\ last.op = "save_category" /\ last.ok
  /\ last.arg = PetsRenamed
  /\ \E i \in 1..Len(data.entries) :
       /\ data.entries[i].category.category_id = PetsCategory.category_id
       /\ data.entries[i].category.name = PetsCategory.name

----------------------------------------------------------------------------
(* AppLogic.query_entries, and the ownership specification: two users who  *)
(* sign in and out, add, change and delete entries, and query.             *)

MaxOwnEntries == 2

AppQueryParams(category_id, tag_ids, start_date, end_date, keyword) ==
  [category_id |-> category_id, tag_ids |-> tag_ids, start_date |-> start_date,
   end_date |-> end_date, keyword |-> keyword]

\* mutant: the store is queried without the owner
app_query_entries_AnyOwner(d, cu, p) ==
  IF ~IsSome(cu) THEN [exc |-> "", res |-> <<>>]
  ELSE query_entries(d, QueryParams(None, p.category_id, p.tag_ids, p.start_date,
                                    p.end_date, None, None, p.keyword))

\* without an identity the empty list, before any parameter is looked at
app_query_entries(d, cu, p) ==
  IF ~IsSome(cu) THEN [exc |-> "", res |-> <<>>]
  ELSE query_entries(d, QueryParams(Some(Val(cu).user_id), p.category_id, p.tag_ids,
                                    p.start_date, p.end_date, None, None, p.keyword))

AppQueryEntries(p) ==
  LET q == app_query_entries(data, current_user, p)
  IN /\ last' = Call("app_query_entries", p, q.exc = "", q.exc, q.res)
     /\ UNCHANGED <<data, disk, current_user>>

AddEntryAt(timestamp) ==
  /\ HasFreshId(data.entries, EntryKey, 1..MaxOwnEntries)
  /\ AppStep("add_entry", [title |-> TitleLunch, amount |-> Ten],
             add_entry_ids(data, disk, current_user, DefaultCategoryId(1), TitleLunch,
                           Ten, timestamp, "ok", 1..MaxOwnEntries))

\* no filter, a category, a date range, dates out of order, a keyword
QueryInputsQ ==
  {AppQueryParams(None, None, None, None, None),
   AppQueryParams(Some(DefaultCategoryId(1)), None, None, None, None),
   AppQueryParams(None, None, Some(Dt(1, FALSE)), Some(Dt(2, FALSE)), None),
   AppQueryParams(None, None, Some(Dt(2, FALSE)), Some(Dt(1, FALSE)), None),
   AppQueryParams(None, None, None, None, Some(<<"b">>))}

RegisterQ == \E e \in {EmailAnn, EmailBob} : Register(e, Phone, Secret, NickAnn)
LoginQ == \E e \in {EmailAnn, EmailBob} : Login(e, Secret)
AddEntryQ == \E ts \in {Dt(1, FALSE), Dt(2, FALSE), Dt(1, TRUE)} : AddEntryAt(ts)
UpdateEntryQ == \E id \in 1..MaxOwnEntries : UpdateEntry(id, Some(<<"B">>), None)
DeleteEntryQ == \E id \in 1..MaxOwnEntries : DeleteEntry(id)
QueryQ == \E p \in QueryInputsQ : AppQueryEntries(p)

NextQ == RegisterQ \/ LoginQ \/ Logout \/ AddEntryQ \/ UpdateEntryQ \/ DeleteEntryQ \/ QueryQ
SpecOwn == Init /\ [][NextQ]_vars

\* the dataset without the entries of everybody else
OwnOnly(d, cu) ==
  [d EXCEPT !.entries = SelectSeq(@, LAMBDA ed : ed.user_id = Val(cu).user_id)]

\* C29: AppLogic.query_entries returns the empty list without an identity and
\* otherwise only entries of the active identity, and what it gives the active
\* identity is what it would give were nobody else's entry stored
C29_OnlyOwnEntries ==
  /\ last.op = "app_query_entries" =>
       /\ ~IsSome(current_user) => (last.exc = "" /\ last.res = <<>>)
       /\ \A i \in 1..Len(last.res) : last.res[i].user_id = Val(current_user).user_id
  /\ IsSome(current_user) =>
       \A p \in QueryInputsQ :
         app_query_entries(data, current_user, p)
           = app_query_entries(OwnOnly(data, current_user), current_user, p)

\* C29: a query returned an entry while another user's entry is stored
C29_Witness ==
  /\ last.op = "app_query_entries" /\ IsSome(current_user) /\ Len(last.res) > 0
  /\ \E i \in 1..Len(data.entries) : data.entries[i].user_id # Val(current_user).user_id

----------------------------------------------------------------------------
(* models/budget.py : get_remaining_amount, and the three answers a row of *)
(* check_budget_status takes from one Budget for one spend                 *)

PadLeft(ds, n) == Zeros(n - Len(ds)) \o ds

\* digit sequences of equal length: the sum, and the difference a - b >= 0
RECURSIVE AddCarry(_, _, _)
AddCarry(a, b, carry) ==
  IF a = <<>> THEN (IF carry = 0 THEN <<>> ELSE <<carry>>)
  ELSE LET v == a[Len(a)] + b[Len(b)] + carry
       IN Append(AddCarry(SubSeq(a, 1, Len(a) - 1), SubSeq(b, 1, Len(b) - 1), v \div 10),
                 v % 10)
RECURSIVE SubBorrow(_, _, _)
SubBorrow(a, b, borrow) ==
  IF a = <<>> THEN <<>>
  ELSE LET v == a[Len(a)] - b[Len(b)] - borrow
       IN Append(SubBorrow(SubSeq(a, 1, Len(a) - 1), SubSeq(b, 1, Len(b) - 1),
                           IF v < 0 THEN 1 ELSE 0),
                 IF v < 0 THEN v + 10 ELSE v)

\* the exact difference x - y of a Decimal x and a Decimal y >= 0
BigSubExact(x, y) ==
  LET e == IF x.e < y.e THEN x.e ELSE y.e
      n == IF Len(Aligned(x, e)) > Len(Aligned(y, e))
           THEN Len(Aligned(x, e)) ELSE Len(Aligned(y, e))
      a == PadLeft(Aligned(x, e), n)
      b == PadLeft(Aligned(y, e), n)
  IN IF x.neg /\ ~BigIsZero(x) THEN Big(TRUE, StripZeros(<<0>> \o AddCarry(a, b, 0)), e)
     ELSE IF MagCmp(x, y) >= 0 THEN Big(FALSE, StripZeros(SubBorrow(a, b, 0)), e)
     ELSE Big(TRUE, StripZeros(SubBorrow(b, a, 0)), e)

\* mutant: the spend less the limit
get_remaining_amount_Spent(b, spent) ==
  RoundHalfEven(BigSubExact(BigOf(spent), BigOf(b.limit_amount)))

\* self.limit_amount - Decimal(str(spent)): the difference, rounded by
\* the context to Prec significant digits
get_remaining_amount(b, spent) ==
  RoundHalfEven(BigSubExact(BigOf(b.limit_amount), BigOf(spent)))

\* the answers of lines 361-365 of check_budget_status
BudgetAnswers(b, spent) ==
  [remaining |-> get_remaining_amount(b, spent),
   is_exceeded |-> is_exceeded(b, spent),
   is_threshold_reached |-> is_threshold_reached(b, spent)]

----------------------------------------------------------------------------
(* Remaining specification: one Budget, built and changed, asked about spends *)

\* 10^28 + 9, a limit of 29 digits
LimitNine == Big(FALSE, <<1>> \o Zeros(27) \o <<9>>, 0)
LimitInputsZ == {Hundred, Dec(0, 0), Dec(-5, 0), LimitNine}
PercentInputsZ == {0, 50, 100, 101}
\* 0, 0.04, 50, 100, 100.01, 10^28 + 9, 10^28 + 9.5
SpendInputsZ ==
  {Dec(0, 0), Dec(4, -2), Dec(50, 0), Hundred, Big(FALSE, <<1, 0, 0, 0, 1>>, -2),
   LimitNine, Big(FALSE, <<1>> \o Zeros(27) \o <<9, 5>>, -1)}

ReceiverZ ==
  IF last.op \in BudgetOps \cup {"budget_answers"} THEN last.arg.self ELSE None

UpdateLimitZ ==
  \E l \in LimitInputsZ :
    /\ IsSome(ReceiverZ)
    /\ BudgetCall("update_limit", Some(update_limit(Val(ReceiverZ), l)), l, TRUE, "", <<>>)

UpdateThresholdZ ==
  \E t \in PercentInputsZ :
    /\ IsSome(ReceiverZ)
    /\ IF ThresholdOk(t)
       THEN BudgetCall("update_threshold", Some(update_threshold(Val(ReceiverZ), t)),
                       t, TRUE, "", <<>>)
       ELSE BudgetCall("update_threshold", ReceiverZ, t, FALSE, "ValueError", <<>>)

BudgetAnswersZ ==
  \E spend \in SpendInputsZ :
    /\ IsSome(ReceiverZ)
    /\ BudgetCall("budget_answers", ReceiverZ, spend, TRUE, "",
                  <<BudgetAnswers(Val(ReceiverZ), spend)>>)

BudgetInitZ == \E l \in LimitInputsZ, t \in PercentInputsZ : BudgetInit(l, t)

NextZ == BudgetInitZ \/ UpdateLimitZ \/ UpdateThresholdZ \/ BudgetAnswersZ
SpecRemaining == Init /\ [][NextZ]_vars

\* remaining + spend = limit, compared exactly
RemainingExact(b, spend, remaining) ==
  BigCmp(BigSubExact(BigOf(b.limit_amount), BigOf(spend)), remaining) = 0
IsNegative(x) == x.neg /\ ~BigIsZero(x)

\* C30: for every Budget and every spend >= 0, is_exceeded implies
\* is_threshold_reached, remaining is the limit less the spend, and remaining
\* is negative exactly when is_exceeded
C30_BudgetAnswersAgree ==
  last.op = "budget_answers" =>
    /\ last.res[1].is_exceeded => last.res[1].is_threshold_reached
    /\ RemainingExact(Val(last.arg.self), last.arg.value, last.res[1].remaining)
    /\ IsNegative(last.res[1].remaining) <=> last.res[1].is_exceeded

=============================================================================
